---- MODULE Spec2Model ----
(***************************************************************************)
(* Multi-session streaming chat manager (src/hooks/useChatManager.ts).     *)
(*                                                                         *)
(* The manager is a React hook.  Its state is the conversation list        *)
(* `chats` (mirrored to localStorage by persistChats), the per-chat        *)
(* runtime map `chatStates` and the handle map `abortControllersRef`.      *)
(* JavaScript runs handlers to completion, so each action below is one     *)
(* synchronous stretch of code: a handler up to its first await, or the    *)
(* continuation of an await (the part after `await sendMessage(...)` with  *)
(* its catch and finally blocks).  The values an async function captured   *)
(* before its await (chat, newChats, targetChatId, abortController) live   *)
(* in the record of its generation in `gens`.                              *)
(*                                                                         *)
(* A handler started by the user reads the `chats` of the latest render,   *)
(* i.e. the current list; only the continuation of an await works on the   *)
(* list it captured (newChats).  The rejection that controller.abort()     *)
(* causes is delivered to the suspended call as a step of its own          *)
(* (Cancelled), like any other answer of the request.                      *)
(*                                                                         *)
(* Of a conversation the model keeps every field (id, title, messages,     *)
(* createdAt, updatedAt, pinned, archived); of a message the identifier,   *)
(* the role and the content.  Date.now() reads `clock`, which moves only   *)
(* where a specification lets time pass (Tick); an imported conversation   *)
(* is the imported document with the three fields the import overwrites    *)
(* (SpecImport).                                                           *)
(*                                                                         *)
(* The stream decoder of lib/api.ts and of the backend client is a         *)
(* machine of its own (SpecDecoder): `decoder` holds one run of            *)
(* handleStreamingResponse over a body drawn at the start.                 *)
(***************************************************************************)
EXTENDS Integers, Sequences, FiniteSets, TLC

\* ---- bounds ----------------------------------------------------------
MaxIds == 8        \* generateId() is called at most this many times
MaxGens == 2       \* generations (send / regenerate / edit) started
MaxDeltas == 1     \* streamed fragments per generation
MaxChats == 2      \* conversations in the store
MaxLines == 3      \* lines of one response stream
MaxChunk == 6      \* tokens one reader.read() returns
MaxClock == 2      \* values Date.now() takes
MaxRemoved == 1    \* messages deleted from a panel
MaxPanelGens == 1  \* generations started from the panels
MaxBackendCalls == 1  \* backend requests started in one session

\* ---- inputs ----------------------------------------------------------
Null == 0
UserTexts == {"q"}
EditTexts == {"e"}
Fragments == {"x"}
Replies == {"r"}
FrameTexts == {"a", "b"}
NewTitles == {"t"}
Text50 == "aaaaaaaaaabbbbbbbbbbccccccccccddddddddddeeeeeeeeee"
TitleTexts == {" q ", " " \o Text50 \o " ", " " \o Text50 \o "f "}

VARIABLES
    chats,             \* useState<Chat[]>, newest first
    chatStates,        \* useState<Map<string, ChatState>>
    abortControllers,  \* abortControllersRef.current : chatId -> controller
    gens,              \* suspended async calls, keyed by their controller
    nextId,            \* next value of generateId()
    nextGen,           \* next controller identity
    streamingEnabled,  \* settings.streamingEnabled
    remoteChats,       \* the conversations the backend stores
    backendChats,      \* useBackendChatManager: useState<Chat[]>
    backendCalls,      \* useBackendChatManager: suspended sendMessageToBackend calls
    useMemory,         \* settings.useMemory
    memory,            \* useState<MemoryItem[]>: the contents of the items
    deleted,           \* history: identifiers passed to deleteChat
    removed,           \* history: <<chatId, messageId>> passed to deleteMessage
    clock,             \* Date.now()
    splitState,        \* useState<SplitViewState> of the page
    panelCalls,        \* suspended handleLeftSend / handleRightSend calls
    decoder,           \* one run of handleStreamingResponse (reader, buffer, fullContent)
    returned           \* history: what the call that finished last gave its caller

vars == <<chats, chatStates, abortControllers, gens, nextId, nextGen,
          streamingEnabled, remoteChats, backendChats, backendCalls, useMemory, memory, deleted, removed, clock,
                   splitState, panelCalls, decoder, returned>>

\* ---- data ------------------------------------------------------------
Message(id, role, content) == [id |-> id, role |-> role, content |-> content]

\* storage.ts: firstMessage.trim().slice(0, 50)
TitleMax == 50

\* String.prototype.trim with the blank as the only white space
RECURSIVE TrimStart(_)
TrimStart(s) ==
    IF Len(s) > 0 /\ SubSeq(s, 1, 1) = " " THEN TrimStart(SubSeq(s, 2, Len(s))) ELSE s

RECURSIVE TrimEnd(_)
TrimEnd(s) ==
    IF Len(s) > 0 /\ SubSeq(s, Len(s), Len(s)) = " "
    THEN TrimEnd(SubSeq(s, 1, Len(s) - 1)) ELSE s

Trim(s) == TrimEnd(TrimStart(s))

\* s.slice(0, n) for n >= 0
SliceTo(s, n) == SubSeq(s, 1, IF Len(s) < n THEN Len(s) ELSE n)

\* a title that keeps the blanks around the text
GenerateChatTitleUntrimmed(firstMessage) ==
    LET cleaned == SliceTo(firstMessage, TitleMax)
    IN  IF Len(cleaned) < Len(firstMessage) THEN cleaned \o "..." ELSE cleaned

\* generateChatTitle(firstMessage): cleaned = firstMessage.trim().slice(0, 50);
\* cleaned.length < firstMessage.trim().length ? cleaned + '...' : cleaned
GenerateChatTitle(firstMessage) ==
    LET cleaned == SliceTo(Trim(firstMessage), TitleMax)
    IN  IF Len(cleaned) < Len(Trim(firstMessage)) THEN cleaned \o "..." ELSE cleaned

DefaultTitle == "New chat"

\* a conversation created at time `at` (lines 31-39, 100-108)
Chat(id, title, messages, at) ==
    [id |-> id, title |-> title, messages |-> messages, createdAt |-> at,
     updatedAt |-> at, pinned |-> FALSE, archived |-> FALSE]

IdleChatState == [isLoading |-> FALSE, streamingContent |-> ""]

StoreIds(list) == {list[i].id : i \in DOMAIN list}

HasChat(list, c) == c \in StoreIds(list)

\* chats.find(c => c.id === chatId)
FindChat(list, c) == list[CHOOSE i \in DOMAIN list : list[i].id = c]

\* the message list stored for c (empty when c is not in the store)
ChatMessages(list, c) == IF HasChat(list, c) THEN FindChat(list, c).messages ELSE <<>>

\* newChats.map(c => c.id === chat.id ? chat : c)
ReplaceChat(list, chat) ==
    [i \in DOMAIN list |-> IF list[i].id = chat.id THEN chat ELSE list[i]]

MapRemove(f, k) == [x \in DOMAIN f \ {k} |-> f[x]]

MapSet(f, k, v) == (k :> v) @@ f

\* ---- Session registry ------------------------------------------------
GetChatState(cs, c) == IF c \in DOMAIN cs THEN cs[c] ELSE IdleChatState

MergeChatState(cur, upd) ==
    [isLoading |-> IF "isLoading" \in DOMAIN upd THEN upd.isLoading ELSE cur.isLoading,
     streamingContent |-> IF "streamingContent" \in DOMAIN upd
                          THEN upd.streamingContent ELSE cur.streamingContent]

\* a registry that merges the update into every entry instead of the keyed one
SharedUpdateChatState(cs, c, upd) ==
    [k \in DOMAIN cs \cup {c} |-> MergeChatState(GetChatState(cs, k), upd)]

UpdateChatState(cs, c, upd) == MapSet(cs, c, MergeChatState(GetChatState(cs, c), upd))

StartUpdate == [isLoading |-> TRUE, streamingContent |-> ""]

ResetUpdate == [isLoading |-> FALSE, streamingContent |-> ""]

\* ---- initial stores --------------------------------------------------
U(id, text) == Message(id, "user", text)

A(id, text) == Message(id, "assistant", text)

\* generateId() never repeats: identifiers are handed out in increasing order
RECURSIVE MaxOf(_)
MaxOf(S) == IF S = {} THEN 0
            ELSE LET x == CHOOSE x \in S : TRUE
                     m == MaxOf(S \ {x})
                 IN  IF x > m THEN x ELSE m

UsedIds(list) ==
    StoreIds(list) \cup
    UNION {{list[i].messages[j].id : j \in DOMAIN list[i].messages} : i \in DOMAIN list}

\* getChats(profileId): what an earlier session left in localStorage
InitialStores ==
    { << Chat(1, "q", << U(2, "q"), A(3, "r") >>, 1) >> }

\* no response stream is being decoded
NoStream ==
    [backend |-> FALSE, stream |-> <<>>, pos |-> 0, buffer |-> <<>>,
     fullContent |-> "", delivered |-> <<>>, failed |-> FALSE, done |-> TRUE]

\* useState<SplitViewState>({ enabled: false, leftChatId: null, rightChatId: null })
NoSplit == [enabled |-> FALSE, leftChatId |-> Null, rightChatId |-> Null]

NothingReturned == [op |-> "none", arg |-> Null, state |-> "none", value |-> Null]

Init ==
    /\ chats \in InitialStores
    /\ chatStates = <<>>
    /\ abortControllers = <<>>
    /\ gens = <<>>
    /\ nextId = MaxOf(UsedIds(chats)) + 1
    /\ nextGen = 1
    /\ streamingEnabled \in BOOLEAN
    /\ remoteChats \in InitialStores
    /\ backendChats = <<>>
    /\ backendCalls = <<>>
    /\ useMemory = TRUE
    /\ memory = <<>>
    /\ deleted = {}
    /\ removed = {}
    /\ splitState = NoSplit
    /\ panelCalls = <<>>
    /\ clock = 1
    /\ decoder = NoStream
    /\ returned = NothingReturned

\* ---- the request body (api.ts) ----------------------------------------
\* settings.systemPrompt (storage.ts: the default settings)
SystemPrompt == "You are a helpful AI assistant."

MemoryLists == {<<>>, <<"m">>, <<"m", "n">>}

\* items.join(sep)
RECURSIVE Join(_, _)
Join(items, sep) ==
    IF Len(items) = 0 THEN ""
    ELSE IF Len(items) = 1 THEN items[1]
    ELSE items[1] \o sep \o Join(Tail(items), sep)

\* memory.map(m => `- ${m.content}`).join('\n')
MemorySection(mem) == Join([i \in DOMAIN mem |-> "- " \o mem[i]], "\n")

\* a prompt that renders the memory whether or not its use is enabled
BuildSystemPromptAlways(use, mem) ==
    IF Len(mem) > 0
    THEN SystemPrompt \o "\n\nMEMORY (facts about the user):\n" \o MemorySection(mem)
    ELSE SystemPrompt

\* buildSystemPrompt(settings, memory)
BuildSystemPrompt(use, mem) ==
    IF use /\ Len(mem) > 0
    THEN SystemPrompt \o "\n\nMEMORY (facts about the user):\n" \o MemorySection(mem)
    ELSE SystemPrompt

\* apiMessages: the system message, then role and content of each message
ApiMessages(messages, use, mem) ==
    <<[role |-> "system", content |-> BuildSystemPrompt(use, mem)]>> \o
    [i \in DOMAIN messages |-> [role |-> messages[i].role,
                                content |-> messages[i].content]]

\* ---- generations -----------------------------------------------------
\* What an async manager call holds across `await sendMessage(...)`:
\* targetChatId, chat (resp. updatedChat), newChats and its AbortController
\* (aborted), plus the decoder's fullContent (acc).  arg / before / idx / text /
\* clean are history fields: the chatId the call was given, the conversation
\* as the call found it, the index it cut at, the text it was given, and
\* whether it has had the conversation
\* to itself (no other request on it in flight at its start, no user
\* operation on it since).
NewGen(kind, c, chat, newChats, before, idx, text) ==
    [kind |-> kind, arg |-> c, chatId |-> c, chat |-> chat, newChats |-> newChats,
     aborted |-> FALSE, acc |-> "", before |-> before, idx |-> idx,
     text |-> text, clean |-> TRUE,
     request |-> ApiMessages(chat.messages, useMemory, memory)]

\* history: a user operation on conversation c happened
Touch(gs, c) ==
    [g \in DOMAIN gs |-> IF gs[g].chatId = c THEN [gs[g] EXCEPT !.clean = FALSE]
                         ELSE gs[g]]

\* controller.abort() on the controller registered for c, if any
AbortRegistered(gs, ac, c) ==
    IF c \in DOMAIN ac /\ ac[c] \in DOMAIN gs
    THEN [gs EXCEPT ![ac[c]].aborted = TRUE]
    ELSE gs

\* a start that aborts the request whose handle it replaces
StartGenerationAborting(gen) ==
    /\ nextGen <= MaxGens
    /\ gens' = MapSet(Touch(AbortRegistered(gens, abortControllers, gen.chatId),
                            gen.chatId),
                      nextGen,
                      [gen EXCEPT !.clean =
                          \A g \in DOMAIN gens : gens[g].chatId # gen.chatId])
    /\ nextGen' = nextGen + 1
    /\ abortControllers' = MapSet(abortControllers, gen.chatId, nextGen)
    /\ chatStates' = UpdateChatState(chatStates, gen.chatId, StartUpdate)

\* lines 134-137, 206-208, 265-267: install the handle, mark loading
StartGeneration(gen) ==
    /\ nextGen <= MaxGens
    /\ gens' = MapSet(Touch(gens, gen.chatId), nextGen,
                      [gen EXCEPT !.clean =
                          \A g \in DOMAIN gens : gens[g].chatId # gen.chatId])
    /\ nextGen' = nextGen + 1
    /\ abortControllers' = MapSet(abortControllers, gen.chatId, nextGen)
    /\ chatStates' = UpdateChatState(chatStates, gen.chatId, StartUpdate)

\* ---- operations ------------------------------------------------------
\* deleteChat(chatId), lines 45-62
DeleteChatCall(c) ==
    /\ HasChat(chats, c)
    /\ gens' = Touch(AbortRegistered(gens, abortControllers, c), c)
    /\ abortControllers' = MapRemove(abortControllers, c)
    /\ chats' = SelectSeq(chats, LAMBDA ch : ch.id # c)
    /\ chatStates' = MapRemove(chatStates, c)
    /\ deleted' = deleted \cup {c}
    /\ UNCHANGED <<nextId, nextGen, streamingEnabled, remoteChats, backendChats, backendCalls, useMemory, memory, removed, clock,
                   panelCalls, decoder, returned>>

DeleteChat(c) == DeleteChatCall(c) /\ UNCHANGED splitState

\* chats.map(c => c.id === chatId ? { ...c, <field>, updatedAt: Date.now() } : c)
MapChat(list, c, updated) ==
    [i \in DOMAIN list |-> IF list[i].id = c THEN updated ELSE list[i]]

\* the sidebar operations write `chats` only (lines 64-92); for an identifier
\* that is not in the store the mapped list equals the list
SidebarWrite(c, newChats) ==
    /\ HasChat(chats, c)
    /\ chats' = newChats
    /\ gens' = Touch(gens, c)
    /\ UNCHANGED <<chatStates, abortControllers, nextId, nextGen, streamingEnabled, remoteChats, backendChats, backendCalls, useMemory, memory,
                   deleted, clock,
                   splitState, panelCalls, decoder, returned>>

CreateNewChat ==
    /\ nextId <= MaxIds
    /\ Len(chats) < MaxChats
    /\ chats' = <<Chat(nextId, DefaultTitle, <<>>, clock)>> \o chats
    /\ nextId' = nextId + 1
    /\ UNCHANGED <<chatStates, abortControllers, gens, nextGen, streamingEnabled, remoteChats, backendChats, backendCalls, useMemory, memory,
                   deleted, removed, clock, panelCalls, decoder, returned>>

RenameChat(c, newTitle) ==
    /\ SidebarWrite(c, MapChat(chats, c,
                        [FindChat(chats, c) EXCEPT !.title = newTitle, !.updatedAt = clock]))
    /\ UNCHANGED removed

TogglePinChat(c) ==
    /\ SidebarWrite(c, MapChat(chats, c,
                        [FindChat(chats, c) EXCEPT !.pinned = ~@, !.updatedAt = clock]))
    /\ UNCHANGED removed

ToggleArchiveChat(c) ==
    /\ SidebarWrite(c, MapChat(chats, c,
                        [FindChat(chats, c) EXCEPT !.archived = ~@, !.updatedAt = clock]))
    /\ UNCHANGED removed

\* a delete that cuts the list at the message
UpToMessage(msgs, m) ==
    IF \E i \in DOMAIN msgs : msgs[i].id = m
    THEN SubSeq(msgs, 1, (CHOOSE i \in DOMAIN msgs : msgs[i].id = m) - 1)
    ELSE msgs

\* c.messages.filter(m => m.id !== messageId)
WithoutMessage(msgs, m) == SelectSeq(msgs, LAMBDA x : x.id # m)

DeleteMessage(c, m) ==
    /\ SidebarWrite(c, MapChat(chats, c,
                        [FindChat(chats, c) EXCEPT !.messages = WithoutMessage(@, m),
                                                 !.updatedAt = clock]))
    /\ removed' = IF m \in {ChatMessages(chats, c)[i].id : i \in DOMAIN ChatMessages(chats, c)}
                  THEN removed \cup {<<c, m>>} ELSE removed

\* time passes between two handlers
Tick ==
    /\ clock < MaxClock
    /\ clock' = clock + 1
    /\ UNCHANGED <<chats, chatStates, abortControllers, gens, nextId, nextGen,
                   streamingEnabled, remoteChats, backendChats, backendCalls, useMemory, memory, deleted, removed,
                   splitState, panelCalls, decoder, returned>>

\* the settings dialog saved a new value of useMemory
HandleSaveSettings(use) ==
    /\ useMemory' = use
    /\ UNCHANGED <<chats, chatStates, abortControllers, gens, nextId, nextGen,
                   streamingEnabled, remoteChats, backendChats, backendCalls, memory, deleted, removed, clock,
                   splitState, panelCalls, decoder, returned>>

\* ChatApp.handleSaveMemory(newMemory)
HandleSaveMemory(newMemory) ==
    /\ memory' = newMemory
    /\ UNCHANGED <<chats, chatStates, abortControllers, gens, nextId, nextGen,
                   streamingEnabled, remoteChats, backendChats, backendCalls, useMemory, deleted, removed, clock,
                   splitState, panelCalls, decoder, returned>>

\* sendUserMessage up to its await (lines 94-137): the conversation is
\* created when chatId is null or names no stored conversation
SendCall(chatId, content) ==
    /\ LET isNew == chatId = Null \/ ~HasChat(chats, chatId)
           chat0 == IF isNew THEN Chat(nextId, GenerateChatTitle(content), <<>>, clock)
                    ELSE FindChat(chats, chatId)
           list0 == IF isNew THEN <<chat0>> \o chats ELSE chats
           msgId == IF isNew THEN nextId + 1 ELSE nextId
           titled == IF chat0.messages = <<>> /\ chat0.title = DefaultTitle
                     THEN [chat0 EXCEPT !.title = GenerateChatTitle(content)]
                     ELSE chat0
           chat1 == [titled EXCEPT !.messages = Append(@, U(msgId, content)),
                                   !.updatedAt = clock]
           newChats == ReplaceChat(list0, chat1)
       IN  /\ msgId <= MaxIds
           /\ isNew => Len(chats) < MaxChats
           /\ nextId' = msgId + 1
           /\ chats' = newChats
           /\ StartGeneration([NewGen("send", chat1.id, chat1, newChats,
                                      chat0.messages, 0, content)
                                  EXCEPT !.arg = chatId])
    /\ UNCHANGED <<streamingEnabled, remoteChats, backendChats, backendCalls, useMemory, memory, deleted, removed, clock,
                   splitState, decoder, returned>>

\* a send for a new conversation or for a stored one.  The send box refuses
\* input while the conversation is loading (ChatInput.handleSubmit).
SendUserMessage(chatId, content) ==
    /\ chatId # Null => /\ HasChat(chats, chatId)
                        /\ ~GetChatState(chatStates, chatId).isLoading
    /\ SendCall(chatId, content)
    /\ UNCHANGED panelCalls

\* sendUserMessage called with the identifier of a conversation that was
\* deleted: the identifier names no stored conversation
SendToAbsent(chatId, content) ==
    /\ chatId \in deleted
    /\ ~HasChat(chats, chatId)
    /\ SendCall(chatId, content)
    /\ UNCHANGED panelCalls

\* a stop that drops every handle instead of the conversation's own
ClearControllers(ac, c) == <<>>

StopControllers(ac, c) == MapRemove(ac, c)

StopGens(gs, ac, c) == AbortRegistered(gs, ac, c)

\* a stop that releases the handle but leaves the runtime state as it is
KeepChatStates(cs, c) == cs

StopChatStates(cs, c) == UpdateChatState(cs, c, ResetUpdate)

\* identifiers a panel or the sidebar can still hold
KnownIds == StoreIds(chats) \cup DOMAIN chatStates \cup DOMAIN abortControllers

StopGeneration(c) ==
    /\ c \in KnownIds
    /\ gens' = StopGens(gens, abortControllers, c)
    /\ abortControllers' = StopControllers(abortControllers, c)
    /\ chatStates' = StopChatStates(chatStates, c)
    /\ UNCHANGED <<chats, nextId, nextGen, streamingEnabled, remoteChats, backendChats, backendCalls, useMemory, memory, deleted, removed, clock,
                   splitState, panelCalls, decoder, returned>>

\* index of the last assistant message, 0 when there is none (lines 187-193)
LastAssistantIndex(msgs) ==
    LET S == {i \in DOMAIN msgs : msgs[i].role = "assistant"}
    IN  IF S = {} THEN 0 ELSE CHOOSE i \in S : \A j \in S : j <= i

\* messages.slice(0, lastAssistantIndex) with a 0-based index
MessagesWithoutLast(msgs) == SubSeq(msgs, 1, LastAssistantIndex(msgs) - 1)

\* the guards of regenerateLastResponse (lines 183-194)
CanRegenerate(list, c) ==
    /\ HasChat(list, c)
    /\ Len(FindChat(list, c).messages) >= 2
    /\ LastAssistantIndex(FindChat(list, c).messages) # 0

RegenerateLastResponse(c) ==
    /\ CanRegenerate(chats, c)
    /\ LET chat == FindChat(chats, c)
           updatedChat == [chat EXCEPT !.messages = MessagesWithoutLast(chat.messages),
                                       !.updatedAt = clock]
           newChats == ReplaceChat(chats, updatedChat)
       IN  /\ chats' = newChats
           /\ StartGeneration(NewGen("regenerate", c, updatedChat, newChats,
                                     chat.messages,
                                     LastAssistantIndex(chat.messages), ""))
    /\ UNCHANGED <<nextId, streamingEnabled, remoteChats, backendChats, backendCalls, useMemory, memory, deleted, removed, clock,
                   splitState, panelCalls, decoder, returned>>

\* chat.messages.findIndex(m => m.id === messageId), 0 when absent
FindIndex(msgs, m) ==
    LET S == {i \in DOMAIN msgs : msgs[i].id = m}
    IN  IF S = {} THEN 0 ELSE CHOOSE i \in S : \A j \in S : i <= j

\* [...messagesUpToEdit, editedMessage]
EditedMessages(msgs, i, newContent) ==
    Append(SubSeq(msgs, 1, i - 1), [msgs[i] EXCEPT !.content = newContent])

\* guards that find the message and do not look at its role
CanEditAnyRole(list, c, m) ==
    /\ HasChat(list, c)
    /\ FindIndex(FindChat(list, c).messages, m) # 0

\* the guards of editAndResend (lines 243-247)
CanEdit(list, c, m) ==
    /\ HasChat(list, c)
    /\ FindIndex(FindChat(list, c).messages, m) # 0
    /\ FindChat(list, c).messages[FindIndex(FindChat(list, c).messages, m)].role = "user"

EditAndResend(c, m, newContent) ==
    /\ CanEdit(chats, c, m)
    /\ LET chat == FindChat(chats, c)
           i == FindIndex(chat.messages, m)
           updatedChat == [chat EXCEPT !.messages = EditedMessages(@, i, newContent),
                                       !.updatedAt = clock]
           newChats == ReplaceChat(chats, updatedChat)
       IN  /\ chats' = newChats
           /\ StartGeneration(NewGen("edit", c, updatedChat, newChats,
                                     chat.messages, i, newContent))
    /\ UNCHANGED <<nextId, streamingEnabled, remoteChats, backendChats, backendCalls, useMemory, memory, deleted, removed, clock,
                   splitState, panelCalls, decoder, returned>>

\* ---- the backend-integrated manager (types/chat.ts from line 57) -------
\* what the backend manager's operations leave alone
localVars == <<chats, chatStates, abortControllers, gens, nextGen, streamingEnabled,
               useMemory, memory, deleted, removed, clock, splitState, panelCalls,
               decoder, returned>>

\* chatsApi.list(): every conversation of the backend with `messages: []`
ListOf(remote) == [i \in DOMAIN remote |-> [remote[i] EXCEPT !.messages = <<>>]]

\* loadChats, at mount and every 3 seconds: setChats(await chatsApi.list())
LoadChats ==
    /\ backendChats' = ListOf(remoteChats)
    /\ UNCHANGED <<remoteChats, backendCalls, nextId, localVars>>

\* loadChatMessages(chatId): chatsApi.get, then prev.map(c => c.id === chatId ? chat : c)
LoadChatMessages(c) ==
    /\ HasChat(remoteChats, c)
    /\ backendChats' = MapChat(backendChats, c, FindChat(remoteChats, c))
    /\ UNCHANGED <<remoteChats, backendCalls, nextId, localVars>>

\* deleteMessage of the backend manager: the backend deletes the message,
\* then the local list is filtered; a message the backend does not hold
\* makes chatsApi.deleteMessage throw before the local update
BackendDeleteMessage(c, m) ==
    /\ HasChat(remoteChats, c)
    /\ m \in {ChatMessages(remoteChats, c)[i].id : i \in DOMAIN ChatMessages(remoteChats, c)}
    /\ remoteChats' = MapChat(remoteChats, c,
                          [FindChat(remoteChats, c) EXCEPT
                              !.messages = WithoutMessage(@, m)])
    /\ backendChats' = IF HasChat(backendChats, c)
                       THEN MapChat(backendChats, c,
                               [FindChat(backendChats, c) EXCEPT
                                   !.messages = WithoutMessage(@, m),
                                   !.updatedAt = clock])
                       ELSE backendChats
    /\ UNCHANGED <<backendCalls, nextId, localVars>>

\* a call is waiting for sendMessageToBackend on conversation c; the
\* input refuses a send meanwhile (ChatInput.tsx line 26), and one call
\* per conversation is started at a time
BackendLoading(c) == \E i \in DOMAIN backendCalls : backendCalls[i].chatId = c

\* sendUserMessage of the backend manager with the id of a listed
\* conversation, up to its await: the optimistic append (lines 183-211)
BackendSend(c, content) ==
    /\ HasChat(backendChats, c)
    /\ ~BackendLoading(c)
    /\ nextId <= MaxIds
    /\ LET chat == FindChat(backendChats, c)
           newTitle == IF chat.messages = <<>> /\ chat.title = DefaultTitle
                       THEN GenerateChatTitle(content) ELSE chat.title
       IN  backendChats' = MapChat(backendChats, c,
                              [chat EXCEPT !.title = newTitle,
                                           !.messages = Append(@, U(nextId, content)),
                                           !.updatedAt = clock])
    /\ nextId' = nextId + 1
    /\ backendCalls' = Append(backendCalls,
                               [kind |-> "send", chatId |-> c, idx |-> 0])
    /\ UNCHANGED <<remoteChats, localVars>>

\* index of the last user message before index k, 0 when there is none
LastUserIndexBefore(msgs, k) ==
    LET S == {i \in 1..(k - 1) : msgs[i].role = "user"}
    IN  IF S = {} THEN 0 ELSE CHOOSE i \in S : \A j \in S : j <= i

\* regenerateLastResponse of the backend manager up to its second await
\* (lines 252-293): the backend deletes the last assistant message first;
\* without a user message before it the call returns there, otherwise the
\* local list is cut and the request is issued
BackendRegenerate(c) ==
    /\ CanRegenerate(backendChats, c)
    /\ ~BackendLoading(c)
    /\ LET msgs == FindChat(backendChats, c).messages
           k == LastAssistantIndex(msgs)
       IN  /\ msgs[k].id \in {ChatMessages(remoteChats, c)[i].id :
                                  i \in DOMAIN ChatMessages(remoteChats, c)}
           /\ remoteChats' = MapChat(remoteChats, c,
                                 [FindChat(remoteChats, c) EXCEPT
                                     !.messages = WithoutMessage(@, msgs[k].id)])
           /\ IF LastUserIndexBefore(msgs, k) = 0
              THEN UNCHANGED <<backendChats, backendCalls>>
              ELSE /\ backendChats' = MapChat(backendChats, c,
                                          [FindChat(backendChats, c) EXCEPT
                                              !.messages = SubSeq(@, 1, k - 1),
                                              !.updatedAt = clock])
                   /\ backendCalls' = Append(backendCalls,
                                              [kind |-> "regenerate", chatId |-> c,
                                               idx |-> k])
    /\ UNCHANGED <<nextId, localVars>>

\* the assistant message a backend call commits (lines 223-227, 313-317)
BackendCommit(call, msgs, reply) ==
    IF call.kind = "send" THEN Append(msgs, reply)
    ELSE Append(SliceTo(msgs, call.idx - 1), reply)

\* sendMessageToBackend resolved with `response`: the backend has stored
\* the posted message and its reply (POST /chats/{id}/messages), the
\* manager appends the assistant message to the current local list
BackendComplete(response) ==
    /\ backendCalls # <<>>
    /\ nextId + 2 <= MaxIds
    /\ LET call == Head(backendCalls)
           c == call.chatId
       IN  /\ remoteChats' =
                 IF HasChat(remoteChats, c)
                 THEN MapChat(remoteChats, c,
                         [FindChat(remoteChats, c) EXCEPT
                             !.messages = @ \o <<U(nextId, "q"), A(nextId + 1, response)>>])
                 ELSE remoteChats
           /\ backendChats' =
                 IF HasChat(backendChats, c)
                 THEN MapChat(backendChats, c,
                         [FindChat(backendChats, c) EXCEPT
                             !.messages = BackendCommit(call, @, A(nextId + 2, response)),
                             !.updatedAt = clock])
                 ELSE backendChats
    /\ nextId' = nextId + 3
    /\ backendCalls' = Tail(backendCalls)
    /\ UNCHANGED localVars

\* sendMessageToBackend rejected: the catch block logs, the lists stay
BackendFail ==
    /\ backendCalls # <<>>
    /\ backendCalls' = Tail(backendCalls)
    /\ UNCHANGED <<remoteChats, backendChats, nextId, localVars>>

\* the backend manager in one tab: refresh, open a conversation, send,
\* regenerate, delete a message
NextBackend ==
    \/ LoadChats
    \/ \E c \in StoreIds(backendChats) : LoadChatMessages(c)
    \/ \E c \in StoreIds(backendChats) :
          \E m \in {ChatMessages(backendChats, c)[i].id :
                        i \in DOMAIN ChatMessages(backendChats, c)} :
             BackendDeleteMessage(c, m)
    \/ /\ Len(backendCalls) < MaxBackendCalls
       /\ \E c \in StoreIds(backendChats), t \in UserTexts : BackendSend(c, t)
    \/ /\ Len(backendCalls) < MaxBackendCalls
       /\ \E c \in StoreIds(backendChats) : BackendRegenerate(c)
    \/ \E r \in Replies : BackendComplete(r)
    \/ BackendFail

SpecBackend == Init /\ [][NextBackend]_vars

\* ---- the completion request ------------------------------------------
\* one chunk of the stream carried a fragment: fullContent grows and the
\* per-delta callback stores the running total (api.ts 109-113, line 144)
StreamDelta(g, frag) ==
    /\ g \in DOMAIN gens
    /\ streamingEnabled
    /\ ~gens[g].aborted
    /\ Len(gens[g].acc) < MaxDeltas
    /\ gens' = [gens EXCEPT ![g].acc = @ \o frag]
    /\ chatStates' = UpdateChatState(chatStates, gens[g].chatId,
                                     [streamingContent |-> gens[g].acc \o frag])
    /\ UNCHANGED <<chats, abortControllers, nextId, nextGen,
                   streamingEnabled, remoteChats, backendChats, backendCalls, useMemory, memory, deleted, removed, clock,
                   splitState, panelCalls, decoder, returned>>

\* a return of the chatId parameter in place of targetChatId
ReturnedArgument(gen) ==
    [op |-> gen.kind, arg |-> gen.arg, state |-> "fulfilled",
     value |-> IF gen.kind = "send" THEN gen.arg ELSE Null]

\* what the async call of generation `gen` hands its caller when it ends:
\* `return targetChatId` (line 170) for a send, nothing for the other two;
\* the catch block has swallowed any error before
Returned(gen) ==
    [op |-> gen.kind, arg |-> gen.arg, state |-> "fulfilled",
     value |-> IF gen.kind = "send" THEN gen.chatId ELSE Null]

\* a cleanup that releases the handle and forgets to reset the runtime state
FinallyWithoutReset(g) ==
    /\ chatStates' = chatStates
    /\ abortControllers' = MapRemove(abortControllers, gens[g].chatId)
    /\ gens' = MapRemove(gens, g)

\* finally { updateChatState(id, idle); abortControllersRef.current.delete(id) }
Finally(g) ==
    /\ chatStates' = UpdateChatState(chatStates, gens[g].chatId, ResetUpdate)
    /\ abortControllers' = MapRemove(abortControllers, gens[g].chatId)
    /\ gens' = MapRemove(gens, g)

\* a commit of the text on display in place of the text sendMessage returned
FinalMessagesShown(gen, id, response) ==
    Append(gen.chat.messages,
           A(id, GetChatState(chatStates, gen.chatId).streamingContent))

\* [...chat.messages, assistantMessage]
FinalMessages(gen, id, response) == Append(gen.chat.messages, A(id, response))

\* sendMessage resolved with `response`: lines 148-162 and the finally block
Complete(g, response) ==
    /\ g \in DOMAIN gens
    /\ ~gens[g].aborted
    /\ nextId <= MaxIds
    /\ LET finalChat == [gens[g].chat EXCEPT
                            !.messages = FinalMessages(gens[g], nextId, response),
                            !.updatedAt = clock]
       IN  chats' = ReplaceChat(gens[g].newChats, finalChat)
    /\ nextId' = nextId + 1
    /\ Finally(g)
    /\ returned' = Returned(gens[g])
    /\ UNCHANGED <<nextGen, streamingEnabled, remoteChats, backendChats, backendCalls, useMemory, memory, deleted, removed, clock,
                   splitState, panelCalls, decoder>>

\* sendMessage rejected: non-success status or network failure
Fail(g) ==
    /\ g \in DOMAIN gens
    /\ ~gens[g].aborted
    /\ Finally(g)
    /\ returned' = Returned(gens[g])
    /\ UNCHANGED <<chats, nextId, nextGen, streamingEnabled, remoteChats, backendChats, backendCalls, useMemory, memory, deleted, removed, clock,
                   splitState, panelCalls, decoder>>

\* sendMessage rejected with 'Request cancelled' after controller.abort()
Cancelled(g) ==
    /\ g \in DOMAIN gens
    /\ gens[g].aborted
    /\ Finally(g)
    /\ returned' = Returned(gens[g])
    /\ UNCHANGED <<chats, nextId, nextGen, streamingEnabled, remoteChats, backendChats, backendCalls, useMemory, memory, deleted, removed, clock,
                   splitState, panelCalls, decoder>>

GenIds == 1..MaxGens

AllIds == 1..MaxIds

\* what sendMessage returns: handleStreamingResponse's fullContent when
\* streaming, else the body's choices[0].message.content (api.ts 70-75)
Responses(g) ==
    IF g \notin DOMAIN gens THEN {}
    ELSE IF streamingEnabled THEN {gens[g].acc} ELSE Replies

\* user intents and network events of the generation life cycle
Generate ==
    \/ \E c \in AllIds \cup {Null}, t \in UserTexts : SendUserMessage(c, t)
    \/ \E c \in AllIds : StopGeneration(c)
    \/ \E c \in AllIds : RegenerateLastResponse(c)
    \/ \E c \in AllIds, m \in AllIds, t \in EditTexts : EditAndResend(c, m, t)
    \/ \E g \in GenIds, f \in Fragments : StreamDelta(g, f)
    \/ \E g \in GenIds : \E r \in Responses(g) : Complete(g, r)
    \/ \E g \in GenIds : Fail(g)
    \/ \E g \in GenIds : Cancelled(g)

Next == Generate

Spec == Init /\ [][Next]_vars

\* the same with `delete conversation` of the sidebar
NextDelete ==
    \/ Generate
    \/ \E c \in AllIds : DeleteChat(c)

SpecDelete == Init /\ [][NextDelete]_vars

\* the session life cycle alone: starts, stops and settlements.  The
\* fragments of a stream (StreamDelta) write streamingContent only and are
\* left out here.
LifeCycle ==
    \/ \E c \in AllIds \cup {Null}, t \in UserTexts : SendUserMessage(c, t)
    \/ \E c \in AllIds : StopGeneration(c)
    \/ \E c \in AllIds : RegenerateLastResponse(c)
    \/ \E c \in AllIds, m \in AllIds, t \in EditTexts : EditAndResend(c, m, t)
    \/ \E g \in GenIds : \E r \in Responses(g) : Complete(g, r)
    \/ \E g \in GenIds : Fail(g)
    \/ \E g \in GenIds : Cancelled(g)

\* the life cycle with `delete conversation` of the sidebar
NextSession ==
    \/ LifeCycle
    \/ \E c \in AllIds : DeleteChat(c)

SpecSession == Init /\ [][NextSession]_vars

\* the same with sends that name a deleted conversation
NextSend ==
    \/ NextSession
    \/ \E c \in AllIds, t \in UserTexts : SendToAbsent(c, t)

SpecSend == Init /\ [][NextSend]_vars

\* the request of generation g comes to an end: it resolves, fails, or
\* rejects after an abort
Settle(g) ==
    \/ \E r \in Responses(g) : Complete(g, r)
    \/ Fail(g)
    \/ Cancelled(g)

\* every network request eventually resolves, fails or is aborted, and the
\* event loop then runs the continuation of the await
SpecLive == Init /\ [][LifeCycle]_vars /\ \A g \in GenIds : WF_vars(Settle(g))

\* ---- calls whose guards fail -------------------------------------------
\* An async function that takes an early `return` ends at once: its caller's
\* promise is fulfilled with undefined and nothing else has happened.
EarlyReturn(op, c) ==
    [op |-> op, arg |-> c, state |-> "fulfilled", value |-> Null]

\* regenerateLastResponse(c) returning at line 184 or 194
RegenerateRejected(c) ==
    /\ ~CanRegenerate(chats, c)
    /\ returned' = EarlyReturn("regenerate", c)
    /\ UNCHANGED <<chats, chatStates, abortControllers, gens, nextId, nextGen,
                   streamingEnabled, remoteChats, backendChats, backendCalls, useMemory, memory, deleted, removed, clock,
                   splitState, panelCalls, decoder>>

\* editAndResend(c, m, newContent) returning at line 244 or 247
EditRejected(c, m, newContent) ==
    /\ ~CanEdit(chats, c, m)
    /\ returned' = EarlyReturn("edit", c)
    /\ UNCHANGED <<chats, chatStates, abortControllers, gens, nextId, nextGen,
                   streamingEnabled, remoteChats, backendChats, backendCalls, useMemory, memory, deleted, removed, clock,
                   splitState, panelCalls, decoder>>

\* message identifiers a call can name: those of the conversation, and one
\* that no message has
EditTargets(c) ==
    {ChatMessages(chats, c)[i].id : i \in DOMAIN ChatMessages(chats, c)} \cup {Null}

\* the life cycle with the sidebar's `delete message`
NextEdit ==
    \/ LifeCycle
    \/ \E c \in KnownIds : \E m \in EditTargets(c) : DeleteMessage(c, m)

SpecEdit == Init /\ [][NextEdit]_vars

\* sends and their settlements, with at most MaxRemoved messages deleted
NextRemove ==
    \/ \E c \in KnownIds \cup {Null}, t \in UserTexts : SendUserMessage(c, t)
    \/ \E g \in GenIds : \E r \in Responses(g) : Complete(g, r)
    \/ \E g \in GenIds : Fail(g)
    \/ /\ Cardinality(removed) < MaxRemoved
       /\ \E c \in KnownIds : \E m \in EditTargets(c) : DeleteMessage(c, m)

SpecRemove == Init /\ [][NextRemove]_vars

\* the operations that issue a request, with the memory settings changing
\* in between
NextRequest ==
    \/ \E c \in KnownIds \cup {Null}, t \in UserTexts : SendUserMessage(c, t)
    \/ \E c \in KnownIds : RegenerateLastResponse(c)
    \/ \E c \in KnownIds, t \in EditTexts :
          \E m \in EditTargets(c) : EditAndResend(c, m, t)
    \/ \E g \in GenIds : \E r \in Responses(g) : Complete(g, r)
    \/ \E g \in GenIds : Fail(g)
    \/ \E use \in BOOLEAN \ {useMemory} : HandleSaveSettings(use)
    \/ \E mem \in MemoryLists \ {memory} : HandleSaveMemory(mem)

SpecRequest == Init /\ [][NextRequest]_vars

\* conversations whose stamp is older than the clock
Stale == {c \in StoreIds(chats) : FindChat(chats, c).updatedAt < clock}

\* every operation that stamps updatedAt, with time passing in between; a
\* sidebar operation is taken up when it moves the conversation's stamp
NextClock ==
    \/ \E c \in KnownIds \cup {Null}, t \in UserTexts : SendUserMessage(c, t)
    \/ \E c \in KnownIds : RegenerateLastResponse(c)
    \/ \E c \in KnownIds, t \in EditTexts :
          \E m \in EditTargets(c) : EditAndResend(c, m, t)
    \/ \E g \in GenIds : \E r \in Responses(g) : Complete(g, r)
    \/ \E g \in GenIds : Fail(g)
    \/ \E c \in Stale, t \in NewTitles : RenameChat(c, t)
    \/ \E c \in Stale : TogglePinChat(c)
    \/ \E c \in Stale : ToggleArchiveChat(c)
    \/ \E c \in Stale : \E m \in EditTargets(c) : DeleteMessage(c, m)
    \/ Tick

SpecClock == Init /\ [][NextClock]_vars

\* the life cycle with the calls the guards turn down; a panel calls with
\* the identifier of a conversation it holds
NextValidate ==
    \/ LifeCycle
    \/ \E c \in KnownIds : RegenerateRejected(c)
    \/ \E c \in KnownIds, t \in EditTexts :
          \E m \in EditTargets(c) : EditRejected(c, m, t)

SpecValidate == Init /\ [][NextValidate]_vars

\* ---- the page and its panels ------------------------------------------
\* SplitChatView.tsx and the page that holds splitState.  A panel handler
\* reads the splitState of the render it was created in; handleLeftSend and
\* handleRightSend read it again after `await onSendMessage(...)`, so their
\* continuation (Adopt) works on the captured value.
Slots == {"leftChatId", "rightChatId"}

SlotId(slot) == splitState[slot]

\* the left panel is always drawn; the right one in split mode when its
\* conversation is found (lines 86-103, 126-139)
Rendered(slot) ==
    \/ slot = "leftChatId"
    \/ splitState.enabled /\ HasChat(chats, splitState.rightChatId)

\* the identifiers of the messages a panel draws
PanelMessages(slot) ==
    {ChatMessages(chats, SlotId(slot))[i].id : i \in DOMAIN ChatMessages(chats, SlotId(slot))}

\* handleLeftSend / handleRightSend up to the await
PanelSend(slot, content) ==
    /\ Rendered(slot)
    /\ ~GetChatState(chatStates, SlotId(slot)).isLoading
    /\ SendCall(SlotId(slot), content)
    /\ panelCalls' = IF SlotId(slot) = Null
                     THEN MapSet(panelCalls, nextGen,
                                 [slot |-> slot, splitState |-> splitState,
                                  chatId |-> nextId])
                     ELSE panelCalls

\* after the await: if (!splitState.leftChatId) onUpdateSplitState({...splitState, leftChatId: chatId})
Adopt(g) ==
    /\ g \in DOMAIN panelCalls
    /\ g \notin DOMAIN gens
    /\ splitState' = [panelCalls[g].splitState EXCEPT
                         ![panelCalls[g].slot] = panelCalls[g].chatId]
    /\ panelCalls' = MapRemove(panelCalls, g)
    /\ UNCHANGED <<chats, chatStates, abortControllers, gens, nextId, nextGen,
                   streamingEnabled, remoteChats, backendChats, backendCalls, useMemory, memory, deleted, removed, clock, decoder, returned>>

\* the stop button takes the place of the send button while the panel's
\* conversation is loading (ChatInput)
PanelStop(slot) ==
    /\ Rendered(slot)
    /\ SlotId(slot) # Null
    /\ GetChatState(chatStates, SlotId(slot)).isLoading
    /\ StopGeneration(SlotId(slot))

PanelDeleteMessage(slot, m) ==
    /\ Rendered(slot)
    /\ SlotId(slot) # Null
    /\ DeleteMessage(SlotId(slot), m)

PanelRegenerate(slot) ==
    /\ Rendered(slot)
    /\ SlotId(slot) # Null
    /\ RegenerateLastResponse(SlotId(slot))

PanelEdit(slot, m, newContent) ==
    /\ Rendered(slot)
    /\ SlotId(slot) # Null
    /\ EditAndResend(SlotId(slot), m, newContent)

\* the page's state changes leave the manager alone
PageWrite(newSplit) ==
    /\ splitState' = newSplit
    /\ UNCHANGED <<chats, chatStates, abortControllers, gens, nextId, nextGen,
                   streamingEnabled, remoteChats, backendChats, backendCalls, useMemory, memory, deleted, removed, clock, panelCalls,
                   decoder, returned>>

HandleOpenSplitView ==
    /\ ~splitState.enabled
    /\ PageWrite([splitState EXCEPT !.enabled = TRUE])

\* a close that leaves the right slot as it is
KeepRightSlot(split) == [split EXCEPT !.enabled = FALSE]

\* { ...splitState, enabled: false, rightChatId: null }
ClosedSplit(split) == [split EXCEPT !.enabled = FALSE, !.rightChatId = Null]

HandleCloseSplitView ==
    /\ splitState.enabled
    /\ PageWrite(ClosedSplit(splitState))

\* the picker of the empty right panel (lines 140-178)
PickerShown == splitState.enabled /\ ~HasChat(chats, splitState.rightChatId)

HandleSelectRightChat(c) ==
    /\ PickerShown
    /\ HasChat(chats, c)
    /\ c # splitState.leftChatId
    /\ ~FindChat(chats, c).archived
    /\ PageWrite([splitState EXCEPT !.rightChatId = c])

HandleCreateNewRightChat ==
    /\ PickerShown
    /\ CreateNewChat
    /\ splitState' = [splitState EXCEPT !.rightChatId = nextId]

\* the sidebar: setSplitState(prev => ({ ...prev, leftChatId: chatId }))
HandleSelectChat(c) ==
    /\ HasChat(chats, c)
    /\ PageWrite([splitState EXCEPT !.leftChatId = c])

HandleNewChat ==
    /\ CreateNewChat
    /\ splitState' = [splitState EXCEPT !.leftChatId = nextId]

NextSplit ==
    \/ /\ nextGen <= MaxPanelGens
       /\ \E slot \in Slots, t \in UserTexts : PanelSend(slot, t)
    \/ \E slot \in Slots : PanelStop(slot)
    \/ /\ nextGen <= MaxPanelGens
       /\ \E slot \in Slots : PanelRegenerate(slot)
    \/ /\ nextGen <= MaxPanelGens
       /\ \E slot \in Slots, t \in EditTexts :
             \E m \in PanelMessages(slot) : PanelEdit(slot, m, t)
    \/ /\ Cardinality(removed) < MaxRemoved
       /\ \E slot \in Slots : \E m \in PanelMessages(slot) : PanelDeleteMessage(slot, m)
    \/ \E g \in GenIds : Adopt(g)
    \/ HandleOpenSplitView
    \/ HandleCloseSplitView
    \/ \E c \in StoreIds(chats) : HandleSelectRightChat(c)
    \/ \E c \in StoreIds(chats) : HandleSelectChat(c)
    \/ \E g \in GenIds : \E r \in Responses(g) : Complete(g, r)
    \/ \E g \in GenIds : Cancelled(g)

\* the sidebar's delete: chatManager.deleteChat(chatId), then both slots
\* that hold chatId are emptied (functional update of the split state)
HandleDeleteChat(c) ==
    /\ DeleteChatCall(c)
    /\ splitState' = [splitState EXCEPT
                         !.leftChatId = IF @ = c THEN Null ELSE @,
                         !.rightChatId = IF @ = c THEN Null ELSE @]

\* the page with non-streamed replies
InitSplit == Init /\ ~streamingEnabled

SpecSplit == InitSplit /\ [][NextSplit]_vars

\* the panels' sends and stops with the sidebar's select and delete
NextPage ==
    \/ /\ nextGen <= MaxPanelGens
       /\ \E slot \in Slots, t \in UserTexts : PanelSend(slot, t)
    \/ \E slot \in Slots : PanelStop(slot)
    \/ \E g \in GenIds : Adopt(g)
    \/ HandleOpenSplitView
    \/ \E c \in StoreIds(chats) : HandleSelectChat(c)
    \/ \E c \in StoreIds(chats) : HandleDeleteChat(c)
    \/ \E g \in GenIds : \E r \in Responses(g) : Complete(g, r)
    \/ \E g \in GenIds : Fail(g)
    \/ \E g \in GenIds : Cancelled(g)

SpecPage == InitSplit /\ [][NextPage]_vars

\* the operations that set a title: new conversation, rename, and sends of
\* short and long texts; the requests of the sends fail, which leaves the
\* conversation free for the next send.  A rename is taken up when the
\* conversation has no message yet.
NextTitle ==
    \/ HandleNewChat
    \/ \E c \in StoreIds(chats), t \in NewTitles :
          ChatMessages(chats, c) = <<>> /\ RenameChat(c, t)
    \/ \E c \in StoreIds(chats) \cup {Null}, t \in TitleTexts : SendUserMessage(c, t)
    \/ \E g \in GenIds : Fail(g)

SpecTitle == InitSplit /\ [][NextTitle]_vars

\* ---- import ----------------------------------------------------------
\* A document the user picks in the sidebar.  `parses` tells whether
\* JSON.parse accepts its text; `messages` is the value of its messages
\* field; id / createdAt / updatedAt are what the exporting side wrote.
\* An imported conversation keeps createdAt and updatedAt next to id and
\* messages.
Times == {10, 20}

Absent == [kind |-> "absent", items |-> <<>>]

JsonString == [kind |-> "string", items |-> <<>>]

JsonArray(items) == [kind |-> "array", items |-> items]

\* documents exported from conversation i, and one whose text is not JSON
DocsOf(i) ==
    {[parses |-> TRUE, id |-> i, createdAt |-> 10, updatedAt |-> 10, messages |-> v] :
        v \in {Absent, JsonString, JsonArray(<<>>), JsonArray(<<U(2, "q")>>)}}
    \cup {[parses |-> FALSE, id |-> i, createdAt |-> 10, updatedAt |-> 10,
           messages |-> Absent]}

\* JavaScript truthiness of data.messages: undefined is falsy, a non-empty
\* string and every array (the empty one too) are truthy
Truthy(v) == v.kind # "absent"

\* a check that takes any present value for a list
AnyValueIsArray(v) == TRUE

\* Array.isArray(data.messages)
IsArray(v) == v.kind = "array"

\* a validation that also wants at least one message
AcceptsNonEmptyImport(doc) ==
    doc.parses /\ Truthy(doc.messages) /\ IsArray(doc.messages)
    /\ doc.messages.items # <<>>

\* Sidebar.handleImportChat: JSON.parse does not throw and
\* data.messages && Array.isArray(data.messages)
AcceptsImport(doc) ==
    doc.parses /\ Truthy(doc.messages) /\ IsArray(doc.messages)

\* an import that trusts the document: { ...chatData }
SpreadOnlyChat(doc, id, now) ==
    [id |-> doc.id, messages |-> doc.messages.items,
     createdAt |-> doc.createdAt, updatedAt |-> doc.updatedAt]

\* { ...chatData, id: generateId(), createdAt: Date.now(), updatedAt: Date.now() }
ImportedChat(doc, id, now) ==
    [id |-> id, messages |-> doc.messages.items,
     createdAt |-> now, updatedAt |-> now]

ImportReturn(doc, value) ==
    [op |-> "import", arg |-> doc, state |-> "fulfilled", value |-> value]

\* the user picked document `doc` at time `now`: handleImportChat, and
\* importChat when the document passes
HandleImportChat(doc, now) ==
    /\ IF AcceptsImport(doc)
       THEN /\ nextId <= MaxIds
            /\ Len(chats) < MaxChats
            /\ chats' = <<ImportedChat(doc, nextId, now)>> \o chats
            /\ nextId' = nextId + 1
            /\ returned' = ImportReturn(doc, ImportedChat(doc, nextId, now).id)
       ELSE /\ returned' = ImportReturn(doc, Null)
            /\ UNCHANGED <<chats, nextId>>
    /\ UNCHANGED <<chatStates, abortControllers, gens, nextGen,
                   streamingEnabled, remoteChats, backendChats, backendCalls, useMemory, memory, deleted, removed, clock,
                   splitState, panelCalls, decoder>>

\* the sidebar's import and delete; the documents at hand were exported
\* from conversations this store has or had
NextImport ==
    \/ \E i \in StoreIds(chats) \cup deleted, now \in Times :
          \E doc \in DocsOf(i) : HandleImportChat(doc, now)
    \/ \E c \in AllIds : DeleteChat(c)

SpecImport == Init /\ [][NextImport]_vars

\* ---- Transport Decoder -------------------------------------------------
\* handleStreamingResponse (lib/api.ts 84-125, backendApi 229-272).  The body
\* of a response is a sequence of tokens: the line feed, the prefix `data: `
\* and what can follow it.  A chunk of the reader is any run of tokens, so a
\* chunk may end inside a line.
Tok(t, v) == [t |-> t, v |-> v]

LF == Tok("lf", "\n")

DataPrefix == Tok("prefix", "data: ")

\* the same six characters arriving as two pieces
DataHead == Tok("prefix", "da")

DataTail == Tok("prefix", "ta: ")

\* {"choices":[{"delta":{"content": w}}]}, the frame of the model server
JsonDelta(w) == Tok("delta", w)

\* {"content": w}, the frame of the backend
JsonContent(w) == Tok("content", w)

\* {"error": w}, the frame the backend sends when the generation failed
JsonError(w) == Tok("error", w)

Sentinel == Tok("text", "[DONE]")

NotJson == Tok("text", "not-json")

Comment == Tok("text", ": ping")

\* lines a server can send, without their line feed
FrameLines ==
    {<<DataPrefix, JsonDelta(w)>> : w \in FrameTexts} \cup
    {<<DataPrefix, JsonContent(w)>> : w \in FrameTexts}

BadLines == {<<DataPrefix, NotJson>>}

SentinelLine == <<DataPrefix, Sentinel>>

LineKinds == FrameLines \cup BadLines \cup {SentinelLine, <<Comment>>}

ErrorLine == <<DataPrefix, JsonError("e")>>

\* lines of a backend stream that breaks off with an error
ErrorLineKinds == {<<DataPrefix, JsonContent("a")>>, ErrorLine, <<DataPrefix, NotJson>>,
                   SentinelLine}

RECURSIVE Bytes(_)
\* the body made of the given lines, each ended by a line feed
Bytes(lines) ==
    IF lines = <<>> THEN <<>>
    ELSE Head(lines) \o <<LF>> \o Bytes(Tail(lines))

RECURSIVE SplitLines(_)
\* buffer.split('\n'): the pieces between line feeds, the last one being
\* what follows the last line feed
SplitLines(toks) ==
    LET S == {i \in DOMAIN toks : toks[i] = LF}
    IN  IF S = {} THEN <<toks>>
        ELSE LET i == CHOOSE i \in S : \A j \in S : i <= j
             IN  <<SubSeq(toks, 1, i - 1)>> \o
                 SplitLines(SubSeq(toks, i + 1, Len(toks)))

\* line.startsWith('data: ')
StartsWithData(line) ==
    \/ line # <<>> /\ line[1] = DataPrefix
    \/ Len(line) >= 2 /\ line[1] = DataHead /\ line[2] = DataTail

\* line.slice(6)
Slice6(line) ==
    IF line[1] = DataPrefix THEN Tail(line) ELSE Tail(Tail(line))

\* JSON.parse(data) succeeds
IsJson(data) == Len(data) = 1 /\ data[1].t \in {"delta", "content", "error"}

\* parsed.error of the backend frame (part_004 line 258); the model server's
\* client does not look at it
ErrorOf(backend, tok) == IF backend /\ tok.t = "error" THEN tok.v ELSE ""

\* `throw new Error(parsed.error)` stands inside the try block whose
\* `catch {}` skips malformed JSON (lines 252-263): the catch takes it and
\* the loop goes on with the next line
ThrownInsideTry(d) == d

\* parsed.choices?.[0]?.delta?.content || ''   resp.   parsed.content
ContentOf(backend, tok) ==
    IF backend THEN (IF tok.t = "content" THEN tok.v ELSE "")
    ELSE (IF tok.t = "delta" THEN tok.v ELSE "")

\* a callback that is handed the fragment instead of the running total
DeliverFragment(d, content) ==
    [d EXCEPT !.fullContent = @ \o content,
              !.delivered = Append(@, content)]

\* fullContent += content; onStream?.(fullContent)
Deliver(d, content) ==
    [d EXCEPT !.fullContent = @ \o content,
              !.delivered = Append(@, d.fullContent \o content)]

\* a loop body without the inner try/catch: a parse error ends the decoding
StrictProcessLine(d, line) ==
    IF d.failed \/ ~StartsWithData(line) THEN d
    ELSE LET data == Slice6(line)
         IN  IF data = <<Sentinel>> THEN d
             ELSE IF ~IsJson(data) THEN [d EXCEPT !.failed = TRUE]
             ELSE IF ContentOf(d.backend, data[1]) # ""
                  THEN Deliver(d, ContentOf(d.backend, data[1]))
                  ELSE IF ErrorOf(d.backend, data[1]) # ""
                       THEN [d EXCEPT !.failed = TRUE]
                       ELSE d

\* the body of `for (const line of lines)`
ProcessLine(d, line) ==
    IF d.failed \/ ~StartsWithData(line) THEN d
    ELSE LET data == Slice6(line)
         IN  IF data = <<Sentinel>> THEN d
             ELSE IF ~IsJson(data) THEN d
             ELSE IF ContentOf(d.backend, data[1]) # ""
                  THEN Deliver(d, ContentOf(d.backend, data[1]))
                  ELSE IF ErrorOf(d.backend, data[1]) # ""
                       THEN ThrownInsideTry(d)
                       ELSE d

RECURSIVE ProcessLines(_, _)
ProcessLines(d, lines) ==
    IF lines = <<>> THEN d
    ELSE ProcessLines(ProcessLine(d, Head(lines)), Tail(lines))

\* a read loop that keeps no buffer between two chunks
DecodeChunkAlone(d, chunk) ==
    LET lines == SplitLines(chunk)
        d1 == ProcessLines(d, SubSeq(lines, 1, Len(lines) - 1))
    IN  [d1 EXCEPT !.buffer = lines[Len(lines)], !.pos = @ + Len(chunk)]

\* one turn of the read loop on a chunk: lines 98-118
DecodeChunk(d, chunk) ==
    LET lines == SplitLines(d.buffer \o chunk)
        d1 == ProcessLines(d, SubSeq(lines, 1, Len(lines) - 1))
    IN  [d1 EXCEPT !.buffer = lines[Len(lines)], !.pos = @ + Len(chunk)]

NewDecoder(backend, stream) ==
    [backend |-> backend, stream |-> stream, pos |-> 0, buffer |-> <<>>,
     fullContent |-> "", delivered |-> <<>>, failed |-> FALSE, done |-> FALSE]

managerVars == <<chats, chatStates, abortControllers, gens, nextId, nextGen,
                 streamingEnabled, remoteChats, backendChats, backendCalls, useMemory, memory, deleted, removed, clock, splitState,
                 panelCalls, returned>>

\* reader.read() returned a chunk of k tokens
ReadChunk(k) ==
    /\ ~decoder.done /\ ~decoder.failed
    /\ decoder.pos + k <= Len(decoder.stream)
    /\ decoder' = DecodeChunk(decoder,
                     SubSeq(decoder.stream, decoder.pos + 1, decoder.pos + k))
    /\ UNCHANGED managerVars

\* reader.read() returned done: the loop ends, fullContent is the result
CloseStream ==
    /\ ~decoder.done /\ ~decoder.failed
    /\ decoder.pos = Len(decoder.stream)
    /\ decoder' = [decoder EXCEPT !.done = TRUE]
    /\ UNCHANGED managerVars

Streams == UNION {[1..n -> LineKinds] : n \in 0..MaxLines}

InitDecoder ==
    /\ chats \in InitialStores
    /\ chatStates = <<>>
    /\ abortControllers = <<>>
    /\ gens = <<>>
    /\ nextId = MaxOf(UsedIds(chats)) + 1
    /\ nextGen = 1
    /\ streamingEnabled = TRUE
    /\ remoteChats \in InitialStores
    /\ backendChats = <<>>
    /\ backendCalls = <<>>
    /\ useMemory = TRUE
    /\ memory = <<>>
    /\ deleted = {}
    /\ removed = {}
    /\ splitState = NoSplit
    /\ panelCalls = <<>>
    /\ clock = 1
    /\ returned = NothingReturned
    /\ \E backend \in BOOLEAN, lines \in Streams :
          decoder = NewDecoder(backend, Bytes(lines))

NextDecoder ==
    \/ \E k \in 1..MaxChunk : ReadChunk(k)
    \/ CloseStream

SpecDecoder == InitDecoder /\ [][NextDecoder]_vars

\* the backend decoder on bodies that can carry an error frame
ErrorStreams == UNION {[1..n -> ErrorLineKinds] : n \in 0..MaxLines}

InitErrors ==
    /\ chats \in InitialStores
    /\ chatStates = <<>>
    /\ abortControllers = <<>>
    /\ gens = <<>>
    /\ nextId = MaxOf(UsedIds(chats)) + 1
    /\ nextGen = 1
    /\ streamingEnabled = TRUE
    /\ remoteChats \in InitialStores
    /\ backendChats = <<>>
    /\ backendCalls = <<>>
    /\ useMemory = TRUE
    /\ memory = <<>>
    /\ deleted = {}
    /\ removed = {}
    /\ splitState = NoSplit
    /\ panelCalls = <<>>
    /\ clock = 1
    /\ returned = NothingReturned
    /\ \E lines \in ErrorStreams : decoder = NewDecoder(TRUE, Bytes(lines))

SpecErrors == InitErrors /\ [][NextDecoder]_vars

\* ---- one generation and its response stream ----------------------------
\* the response of generation g arrived with a body of the given lines and
\* sendMessage handed it to handleStreamingResponse (api.ts 70-71)
OpenStream(g, lines) ==
    /\ g \in DOMAIN gens /\ ~gens[g].aborted
    /\ streamingEnabled
    /\ decoder = NoStream
    /\ decoder' = NewDecoder(FALSE, Bytes(lines))
    /\ UNCHANGED managerVars

\* one turn of the read loop for generation g: every value the loop delivers
\* goes to updateChatState(targetChatId, { streamingContent }) (line 144),
\* so the last one is what the registry holds afterwards
StreamChunk(g, k) ==
    /\ g \in DOMAIN gens /\ ~gens[g].aborted
    /\ ~decoder.done /\ ~decoder.failed
    /\ decoder.pos + k <= Len(decoder.stream)
    /\ LET d == DecodeChunk(decoder,
                    SubSeq(decoder.stream, decoder.pos + 1, decoder.pos + k))
       IN  /\ decoder' = d
           /\ gens' = [gens EXCEPT ![g].acc = d.fullContent]
           /\ chatStates' =
                 IF Len(d.delivered) > Len(decoder.delivered)
                 THEN UpdateChatState(chatStates, gens[g].chatId,
                         [streamingContent |-> d.delivered[Len(d.delivered)]])
                 ELSE chatStates
    /\ UNCHANGED <<chats, abortControllers, nextId, nextGen, streamingEnabled, remoteChats, backendChats, backendCalls,
                   useMemory, memory, deleted, removed, clock, splitState,
                   panelCalls, returned>>

\* the first generation of a session, from its call to its commit, with
\* the body of its response decoded chunk by chunk when streaming is on
NextStream ==
    \/ /\ nextGen = 1
       /\ \/ \E c \in KnownIds \cup {Null}, t \in UserTexts : SendUserMessage(c, t)
          \/ \E c \in KnownIds : RegenerateLastResponse(c)
    \/ /\ decoder = NoStream
       /\ \E g \in DOMAIN gens : \E lines \in Streams \ {<<>>} : OpenStream(g, lines)
    \/ \E g \in DOMAIN gens : \E k \in 1..MaxChunk : StreamChunk(g, k)
    \/ CloseStream
    \/ /\ streamingEnabled => decoder.done /\ decoder # NoStream
       /\ \E g \in GenIds : \E r \in Responses(g) : Complete(g, r)

SpecStream == Init /\ [][NextStream]_vars

\* the same bodies with the prefix of every line in two pieces, so that a
\* chunk can end inside it, and with or without the line feed of the last
\* line
RECURSIVE InPieces(_)
InPieces(toks) ==
    IF toks = <<>> THEN <<>>
    ELSE IF Head(toks) = DataPrefix THEN <<DataHead, DataTail>> \o InPieces(Tail(toks))
    ELSE <<Head(toks)>> \o InPieces(Tail(toks))

WithoutLastLineFeed(toks) ==
    IF toks = <<>> THEN toks ELSE SubSeq(toks, 1, Len(toks) - 1)

InitChunks ==
    /\ chats \in InitialStores
    /\ chatStates = <<>>
    /\ abortControllers = <<>>
    /\ gens = <<>>
    /\ nextId = MaxOf(UsedIds(chats)) + 1
    /\ nextGen = 1
    /\ streamingEnabled = TRUE
    /\ remoteChats \in InitialStores
    /\ backendChats = <<>>
    /\ backendCalls = <<>>
    /\ useMemory = TRUE
    /\ memory = <<>>
    /\ deleted = {}
    /\ removed = {}
    /\ splitState = NoSplit
    /\ panelCalls = <<>>
    /\ clock = 1
    /\ returned = NothingReturned
    /\ \E backend \in BOOLEAN, lines \in Streams, terminated \in BOOLEAN :
          decoder = NewDecoder(backend,
                       IF terminated THEN InPieces(Bytes(lines))
                       ELSE WithoutLastLineFeed(InPieces(Bytes(lines))))

SpecChunks == InitChunks /\ [][NextDecoder]_vars

\* ---- the completion clients ---------------------------------------------
\* sendMessage (lib/api.ts) and sendMessageToBackend (backend client) around
\* the decoder: the request can be answered with a non-success status
\* before any byte of the body is read, and it can be aborted through its
\* signal or lose its connection at any moment before the body has ended.
Statuses == {"404", "500"}

ClientEvents ==
    {[event |-> "abort", status |-> ""], [event |-> "network", status |-> ""]}
    \cup {[event |-> "status", status |-> st] : st \in Statuses}

Err(name, message) == [name |-> name, message |-> message]

\* what fetch() and reader.read() reject with
FetchError(ev) ==
    IF ev.event = "abort" THEN Err("AbortError", "The operation was aborted.")
    ELSE Err("TypeError", "Failed to fetch")

\* api.ts 66-68 and the catch block 76-81
SendMessageError(ev) ==
    LET error == IF ev.event = "status"
                 THEN Err("Error", "HTTP error! status: " \o ev.status)
                 ELSE FetchError(ev)
    IN  IF error.name = "AbortError" THEN Err("Error", "Request cancelled")
        ELSE error

\* backend client 217-219; nothing is caught there
SendMessageToBackendError(ev) ==
    IF ev.event = "status" THEN Err("Error", "Failed to send message")
    ELSE FetchError(ev)

ClientName(backend) == IF backend THEN "sendMessageToBackend" ELSE "sendMessage"

ClientError(op, ev) ==
    IF op = "sendMessageToBackend" THEN SendMessageToBackendError(ev)
    ELSE SendMessageError(ev)

\* the call of the client rejects
ClientRejects(ev) ==
    /\ ~decoder.done /\ ~decoder.failed
    /\ ev.event = "status" => decoder.pos = 0
    /\ decoder' = [decoder EXCEPT !.failed = TRUE]
    /\ returned' = [op |-> ClientName(decoder.backend), arg |-> ev,
                    state |-> "rejected",
                    value |-> ClientError(ClientName(decoder.backend), ev)]
    /\ UNCHANGED <<chats, chatStates, abortControllers, gens, nextId, nextGen,
                   streamingEnabled, remoteChats, backendChats, backendCalls, useMemory, memory, deleted, removed, clock, splitState,
                   panelCalls>>

NextClient ==
    \/ \E k \in 1..MaxChunk : ReadChunk(k)
    \/ CloseStream
    \/ \E ev \in ClientEvents : ClientRejects(ev)

SpecClient == InitDecoder /\ [][NextClient]_vars

\* ======================================================================
\* Properties
\* ======================================================================
Msgs(c) == ChatMessages(chats, c)

MsgsAfter(c) == ChatMessages(chats', c)

MessageIds(msgs) == {msgs[i].id : i \in DOMAIN msgs}

\* getChatState returns the idle state and no handle is registered
IsIdle(cs, ac, c) == GetChatState(cs, c) = IdleChatState /\ c \notin DOMAIN ac

InFlight(c) == {g \in DOMAIN gens : gens[g].chatId = c}

\* C1: a send that stopGeneration cancelled leaves, when it settles, exactly
\* the message list it had stored right after appending the user message
\* (no other user operation on that conversation in between).
C1_CancelledSendKeepsAppendedList ==
    [][\A g \in GenIds :
          (Cancelled(g) /\ gens[g].kind = "send" /\ gens[g].clean)
          => MsgsAfter(gens[g].chatId) = gens[g].chat.messages]_vars

\* a reply was committed to conversation a after generation h was started:
\* a generation on a overlapped h and succeeded
RepliedSince(h, a) ==
    \E i \in DOMAIN Msgs(a) :
        /\ Msgs(a)[i].role = "assistant"
        /\ Msgs(a)[i].id \notin MessageIds(ChatMessages(gens[h].newChats, a))

\* C2: when overlapping generations on two conversations both succeed, the
\* write-back of the one that completes last leaves the other conversation's
\* messages (earlier messages, user message, reply) as they are.
C2_WriteBackKeepsOtherConversation ==
    [][\A h \in GenIds : \A r \in Responses(h) :
          Complete(h, r)
          => \A a \in StoreIds(chats) \ {gens[h].chatId} :
                RepliedSince(h, a) => MsgsAfter(a) = Msgs(a)]_vars

\* the registry updates issued for conversation c in this step
UpdateIssuedFor(c) ==
    \/ \E t \in UserTexts : SendUserMessage(c, t)
    \/ \E t \in UserTexts : SendUserMessage(Null, t) /\ c = nextId
    \/ StopGeneration(c)
    \/ RegenerateLastResponse(c)
    \/ \E m \in MessageIds(Msgs(c)), t \in EditTexts : EditAndResend(c, m, t)
    \/ \E g \in InFlight(c) :
          \/ \E f \in Fragments : StreamDelta(g, f)
          \/ \E r \in Responses(g) : Complete(g, r)
          \/ Fail(g)
          \/ Cancelled(g)

\* C3: a registry update issued for one conversation (start, delta,
\* completion, stop, failure) leaves the loading flag and streamingContent
\* read through every other identifier unchanged.
C3_RegistryUpdatesAreKeyed ==
    [][LET changed == {b \in AllIds : GetChatState(chatStates', b) #
                                         GetChatState(chatStates, b)}
       IN  \A c \in AllIds : changed \subseteq {c} \/ ~UpdateIssuedFor(c)]_vars

\* two conversations generate at once and show different runtime states
C3_Witness ==
    \E g \in DOMAIN gens, h \in DOMAIN gens :
        /\ gens[g].chatId # gens[h].chatId
        /\ ~gens[g].aborted /\ ~gens[h].aborted
        /\ GetChatState(chatStates, gens[g].chatId) =
              [isLoading |-> TRUE, streamingContent |-> "x"]
        /\ GetChatState(chatStates, gens[h].chatId) =
              [isLoading |-> TRUE, streamingContent |-> ""]

\* C4: when the request of a send fails, the appended user message is still
\* stored, nothing newer was appended, and the session is Idle again.
C4_FailedSendKeepsUserMessage ==
    [][\A g \in GenIds :
          (Fail(g) /\ gens[g].kind = "send" /\ gens[g].clean)
          => LET c == gens[g].chatId
                 um == gens[g].chat.messages[Len(gens[g].chat.messages)]
             IN  /\ \E i \in DOMAIN MsgsAfter(c) : MsgsAfter(c)[i] = um
                 /\ \A i \in DOMAIN MsgsAfter(c) : MsgsAfter(c)[i].id <= um.id
                 /\ GetChatState(chatStates', c) = IdleChatState
                 /\ c \notin DOMAIN abortControllers']_vars

\* C5: when editAndResend on index i settles, the stored history is the
\* first i messages as they were, then one user message with the new text
\* and, on success, one new assistant message; nothing else.
C5_EditTruncationLaw ==
    [][\A g \in GenIds :
          LET gen == gens[g]
              i == gen.idx
              after == MsgsAfter(gen.chatId)
              success == \E r \in Responses(g) : Complete(g, r)
          IN  ((success \/ Fail(g) \/ Cancelled(g)) /\ gen.kind = "edit" /\ gen.clean)
              => /\ Len(after) = IF success THEN i + 1 ELSE i
                 /\ SubSeq(after, 1, i - 1) = SubSeq(gen.before, 1, i - 1)
                 /\ after[i].role = "user" /\ after[i].content = gen.text
                 /\ success => /\ after[i + 1].role = "assistant"
                               /\ after[i + 1].id \notin MessageIds(gen.before)]_vars

\* the list without its element at index k
RemoveAt(msgs, k) == SubSeq(msgs, 1, k - 1) \o SubSeq(msgs, k + 1, Len(msgs))

\* C6: regenerateLastResponse removes exactly one message, the most recent
\* assistant message, and on success appends exactly one assistant message
\* (checked on conversations with no request in flight, such as one whose
\* later send failed and left a trailing user message).
C6_RegenerateRemovesOneMessage ==
    [][/\ \A c \in AllIds :
             (RegenerateLastResponse(c) /\ InFlight(c) = {})
             => MsgsAfter(c) = RemoveAt(Msgs(c), LastAssistantIndex(Msgs(c)))
       /\ \A g \in GenIds : \A r \in Responses(g) :
             (Complete(g, r) /\ gens[g].kind = "regenerate" /\ gens[g].clean
                /\ InFlight(gens[g].chatId) = {g})
             => LET after == MsgsAfter(gens[g].chatId)
                    kept == RemoveAt(gens[g].before, gens[g].idx)
                IN  /\ Len(after) = Len(kept) + 1
                    /\ SubSeq(after, 1, Len(kept)) = kept
                    /\ after[Len(after)].role = "assistant"]_vars

\* C7: stopGeneration on an Idle conversation changes no observable runtime
\* state, no handle, no request and not the store; and a second stop right
\* after a stop changes nothing any more.
C7_StopIsIdempotent ==
    [][\A c \in AllIds :
          StopGeneration(c)
          => /\ IsIdle(chatStates, abortControllers, c)
                => /\ \A b \in AllIds :
                         GetChatState(chatStates', b) = GetChatState(chatStates, b)
                   /\ abortControllers' = abortControllers
                   /\ gens' = gens
                   /\ chats' = chats
             /\ StopChatStates(chatStates', c) = chatStates'
             /\ StopControllers(abortControllers', c) = abortControllers'
             /\ StopGens(gens', abortControllers', c) = gens']_vars

\* a stop has hit a running generation, whose rejection is still to come,
\* while another conversation keeps generating
C7_Witness ==
    \E g \in DOMAIN gens, h \in DOMAIN gens :
        /\ gens[g].aborted /\ ~gens[h].aborted
        /\ gens[g].chatId # gens[h].chatId
        /\ IsIdle(chatStates, abortControllers, gens[g].chatId)
        /\ gens[g].chatId \in DOMAIN chatStates
        /\ gens[h].chatId \in DOMAIN abortControllers

\* C8: deleteChat(c) aborts c's request and leaves c without handle,
\* registry entry and store entry; the cleanup of the aborted request does
\* not bring an entry or a handle back.
C8_DeleteChatPurgesRegistry ==
    [][/\ \A c \in AllIds :
             DeleteChat(c)
             => /\ c \notin DOMAIN abortControllers'
                /\ c \notin DOMAIN chatStates'
                /\ ~HasChat(chats', c)
                /\ c \in DOMAIN abortControllers
                   => gens'[abortControllers[c]].aborted
       /\ \A g \in GenIds :
             (Cancelled(g) /\ gens[g].chatId \in deleted)
             => /\ gens[g].chatId \notin DOMAIN chatStates'
                /\ gens[g].chatId \notin DOMAIN abortControllers']_vars

\* C9: a deleted conversation never reappears in the store.
C9_DeletedChatStaysDeleted ==
    \A c \in deleted : ~HasChat(chats, c)

\* C10: no conversation has two generations in flight at once.
C10_OneGenerationPerConversation ==
    \A c \in AllIds :
        Cardinality({g \in InFlight(c) : ~gens[g].aborted}) <= 1

\* C11: between steps, a cancellation handle is registered for an identifier
\* exactly when the identifier's runtime state has loading = true.
C11_HandleIffLoading ==
    \A c \in AllIds :
        (c \in DOMAIN abortControllers) <=> GetChatState(chatStates, c).isLoading

\* one conversation generates (handle and loading) while a deleted one, whose
\* aborted request has run its cleanup, has an entry with neither
C11_Witness ==
    \E c \in deleted, d \in DOMAIN abortControllers :
        /\ c \in DOMAIN chatStates
        /\ ~chatStates[c].isLoading
        /\ c \notin DOMAIN abortControllers
        /\ chatStates[d].isLoading

\* C12: between steps, loading = false implies streamingContent is empty: no
\* per-delta callback writes text into a session that stop, completion or
\* failure has reset.
C12_NotLoadingHasNoStreamingText ==
    \A c \in AllIds :
        ~GetChatState(chatStates, c).isLoading
        => GetChatState(chatStates, c).streamingContent = ""

\* s continues p: p is a proper prefix of s
IsStrictExtension(p, s) == Len(s) > Len(p) /\ SubSeq(s, 1, Len(p)) = p

\* C13: within one generation every value handed to the per-delta callback
\* strictly extends the value handed before it (the first one extends the
\* empty string), whatever the frames and however the stream is cut in
\* chunks.
C13_DeliveredValuesExtend ==
    \A i \in DOMAIN decoder.delivered :
        IsStrictExtension(IF i = 1 THEN "" ELSE decoder.delivered[i - 1],
                          decoder.delivered[i])

\* two values were delivered and the last chunk ended inside a line
C13_Witness ==
    /\ Len(decoder.delivered) >= 2
    /\ decoder.buffer # <<>>
    /\ ~decoder.done

\* the lines of the stream being decoded
InputLines ==
    LET l == SplitLines(decoder.stream) IN SubSeq(l, 1, Len(l) - 1)

\* the text fragment a line carries for this decoder ("" if none)
FrameText(backend, line) ==
    IF line \in FrameLines THEN ContentOf(backend, line[2]) ELSE ""

\* the lines before the first sentinel line
BeforeSentinel(lines) ==
    LET S == {i \in DOMAIN lines : lines[i] = SentinelLine}
    IN  IF S = {} THEN lines
        ELSE SubSeq(lines, 1, (CHOOSE i \in S : \A j \in S : i <= j) - 1)

RECURSIVE Concat(_)
Concat(texts) == IF texts = <<>> THEN "" ELSE Head(texts) \o Concat(Tail(texts))

\* the non-empty fragments of the given lines, in order
FragmentsOf(backend, lines) ==
    SelectSeq([i \in DOMAIN lines |-> FrameText(backend, lines[i])],
              LAMBDA w : w # "")

RunningTotals(texts) == [i \in DOMAIN texts |-> Concat(SubSeq(texts, 1, i))]

\* C14: the sentinel line ends the decoding without error: the result is the
\* concatenation of the fragments of the valid frames before the first
\* sentinel, each delivered as a running total, and no frame after the
\* sentinel adds text or triggers the callback.
C14_SentinelEndsDecoding ==
    (decoder.done /\ decoder.stream # <<>>)
    => LET texts == FragmentsOf(decoder.backend, BeforeSentinel(InputLines))
       IN  /\ ~decoder.failed
           /\ decoder.fullContent = Concat(texts)
           /\ decoder.delivered = RunningTotals(texts)

\* the list with x inserted after its first p elements
InsertAt(seq, p, x) == SubSeq(seq, 1, p) \o <<x>> \o SubSeq(seq, p + 1, Len(seq))

\* the decoder run on a whole body
Decoded(backend, lines) ==
    DecodeChunk(NewDecoder(backend, Bytes(lines)), Bytes(lines))

\* C15: a data line that is not JSON is skipped: inserting one anywhere in a
\* stream changes neither the values delivered to the callback nor the
\* result, and no error is raised.
C15_MalformedLineIsSkipped ==
    (decoder.done /\ decoder.stream # <<>>)
    => /\ ~decoder.failed
       /\ \A p \in 0..Len(InputLines), bad \in BadLines :
             LET other == Decoded(decoder.backend, InsertAt(InputLines, p, bad))
             IN  /\ ~other.failed
                 /\ other.delivered = decoder.delivered
                 /\ other.fullContent = decoder.fullContent

\* a decoded stream with a malformed line between two frames that both
\* delivered
C15_Witness ==
    /\ decoder.done
    /\ Len(decoder.delivered) = 2
    /\ \E i \in DOMAIN InputLines :
          /\ InputLines[i] \in BadLines
          /\ i > 1 /\ i < Len(InputLines)
          /\ FrameText(decoder.backend, InputLines[i - 1]) # ""
          /\ FrameText(decoder.backend, InputLines[i + 1]) # ""

\* this step is the sidebar handling document `doc` at time `now`
ImportStep(doc, now) ==
    /\ returned'.op = "import"
    /\ returned'.arg = doc
    /\ HandleImportChat(doc, now)

\* the documents a step can be about: the one it recorded, if any
StepDocs == IF returned'.op = "import" THEN {returned'.arg} ELSE {}

\* C16: importing a document without a messages field creates nothing and
\* leaves the store as it is; importing one whose messages field is an empty
\* list adds exactly one conversation, with an empty message list.
C16_ImportRejectsMissingAcceptsEmpty ==
    [][\A doc \in StepDocs, now \in Times :
          ImportStep(doc, now)
          => /\ (doc.parses /\ doc.messages = Absent)
                => /\ chats' = chats
                   /\ returned'.value = Null
             /\ (doc.parses /\ doc.messages = JsonArray(<<>>))
                => /\ Len(chats') = Len(chats) + 1
                   /\ Tail(chats') = chats
                   /\ Head(chats').messages = <<>>
                   /\ returned'.value = Head(chats').id]_vars

\* an empty conversation was imported, then a document without messages was
\* turned down
C16_Witness ==
    /\ returned.op = "import"
    /\ returned.arg.parses /\ returned.arg.messages = Absent
    /\ returned.value = Null
    /\ \E i \in DOMAIN chats :
          chats[i].messages = <<>> /\ "createdAt" \in DOMAIN chats[i]

\* C17: a document whose message list is present but empty is rejected and
\* creates no conversation.
C17_ImportRejectsEmptyList ==
    [][\A doc \in StepDocs, now \in Times :
          (ImportStep(doc, now) /\ doc.parses
             /\ doc.messages = JsonArray(<<>>))
          => chats' = chats /\ returned'.value = Null]_vars

\* C17 as amended: import accepts a document exactly when it parses and its
\* messages field is a list, empty or not; any other document creates no
\* conversation.
C17_ImportAcceptsExactlyLists ==
    [][\A doc \in StepDocs, now \in Times :
          ImportStep(doc, now)
          => IF doc.parses /\ doc.messages.kind = "array"
             THEN Len(chats') = Len(chats) + 1 /\ returned'.value # Null
             ELSE chats' = chats /\ returned'.value = Null]_vars

\* a document whose messages field is not a list was turned down while the
\* store holds an imported conversation
C17_Witness ==
    /\ returned.op = "import"
    /\ returned.arg.messages = JsonString
    /\ returned.value = Null
    /\ \E i \in DOMAIN chats : "createdAt" \in DOMAIN chats[i]

\* C18: an imported conversation gets a fresh identifier and the time of the
\* import as createdAt and updatedAt, not the document's: the identifier is
\* neither the document's nor one in the store, the conversations already
\* stored stay as they are, and the identifiers in the store stay distinct.
C18_ImportAssignsFreshIdentity ==
    [][\A doc \in StepDocs, now \in Times :
          (ImportStep(doc, now) /\ AcceptsImport(doc))
          => LET new == Head(chats')
             IN  /\ new.id # doc.id
                 /\ new.id \notin StoreIds(chats)
                 /\ new.createdAt = now /\ new.updatedAt = now
                 /\ Tail(chats') = chats
                 /\ Cardinality(StoreIds(chats')) = Len(chats')]_vars

\* the store holds a conversation and an import of the document exported
\* from it, made at a later time than the document's
C18_Witness ==
    /\ returned.op = "import" /\ returned.value # Null
    /\ returned.arg.id \in StoreIds(chats) \ {returned.value}
    /\ \E i \in DOMAIN chats :
          /\ chats[i].id = returned.value
          /\ chats[i].createdAt # returned.arg.createdAt

\* C19: a request that fails (non-success status, network failure) ends the
\* call of sendUserMessage, regenerateLastResponse or editAndResend with an
\* outcome its caller can tell from success; a cancellation ends it without
\* an error.
C19_FailureReachesCaller ==
    [][\A g \in GenIds :
          /\ Fail(g) => returned' # Returned(gens[g])
          /\ Cancelled(g) => returned'.state = "fulfilled"]_vars

\* C20: every generation that is started returns its conversation to Idle:
\* if requests eventually resolve, fail or are aborted, a conversation that
\* is loading eventually has loading = false, empty streamingContent and no
\* handle.
C20_LoadingEventuallyIdle ==
    \A c \in AllIds :
        GetChatState(chatStates, c).isLoading
        ~> IsIdle(chatStates, abortControllers, c)

\* an edit-and-resend has ended, its conversation is Idle again and no
\* request is left
C20_Witness ==
    /\ returned.op = "edit"
    /\ returned.arg \in DOMAIN chatStates
    /\ IsIdle(chatStates, abortControllers, returned.arg)
    /\ gens = <<>>

\* C21: a call whose precondition fails is rejected before any mutation:
\* editAndResend on a message that is not there or is not a user message,
\* and regenerateLastResponse on a conversation with fewer than two messages
\* or without an assistant message, leave the store, the registry and the
\* handle map as they are and start no request.
C21_RejectedCallsChangeNothing ==
    [][\A c \in KnownIds :
          /\ ((Len(Msgs(c)) < 2
                 \/ \A i \in DOMAIN Msgs(c) : Msgs(c)[i].role # "assistant")
              /\ (RegenerateLastResponse(c) \/ RegenerateRejected(c)))
             => UNCHANGED <<chats, chatStates, abortControllers, gens, nextGen>>
          /\ \A m \in EditTargets(c), t \in EditTexts :
                ((\A i \in DOMAIN Msgs(c) :
                     Msgs(c)[i].id = m => Msgs(c)[i].role # "user")
                 /\ (EditAndResend(c, m, t) \/ EditRejected(c, m, t)))
                => UNCHANGED <<chats, chatStates, abortControllers, gens, nextGen>>]_vars

\* a call was turned down on a conversation whose only request, a send, is
\* still in flight
C21_Witness ==
    /\ returned.op \in {"regenerate", "edit"}
    /\ nextGen = 2
    /\ \E g \in DOMAIN gens :
          /\ gens[g].kind = "send" /\ gens[g].chatId = returned.arg
          /\ returned.arg \in DOMAIN abortControllers
          /\ GetChatState(chatStates, returned.arg).isLoading

\* C22: a message passed to deleteMessage is absent from the stored history
\* of its conversation in every later state, also after a generation that
\* was in flight at the time of the delete has committed its reply.
C22_DeletedMessageStaysDeleted ==
    \A p \in removed : p[2] \notin MessageIds(Msgs(p[1]))

UpdatedAt(list, c) == FindChat(list, c).updatedAt

\* C23: the stored updatedAt of a conversation never decreases, whatever
\* operations follow one another, also when the conversation is changed
\* while a generation on another conversation is in flight.
C23_UpdatedAtNeverDecreases ==
    [][\A c \in StoreIds(chats) \cap StoreIds(chats') :
          UpdatedAt(chats', c) >= UpdatedAt(chats, c)]_vars

\* this step is a manager operation of the panels on conversation c
\* (c = Null: a send that creates its conversation)
OperationOn(c) ==
    \/ \E t \in UserTexts : SendCall(c, t)
    \/ /\ c # Null
       /\ \/ StopGeneration(c)
          \/ RegenerateLastResponse(c)
          \/ \E m \in MessageIds(Msgs(c)), t \in EditTexts : EditAndResend(c, m, t)
          \/ \E m \in MessageIds(Msgs(c)) : DeleteMessage(c, m)

\* C24: while split view is disabled, every send, stop, regenerate,
\* edit-and-resend and delete-message is issued for the conversation of the
\* left slot, and none for the conversation the right slot holds.
C24_DisabledSplitTargetsLeft ==
    [][~splitState.enabled =>
          /\ \A c \in StoreIds(chats) \cup {Null} :
                OperationOn(c) => c = splitState.leftChatId
          /\ splitState.rightChatId # Null => ~OperationOn(splitState.rightChatId)]_vars

\* split view is off and a request issued from the single panel is in
\* flight on the left slot's conversation, next to another conversation
C24_Witness ==
    /\ ~splitState.enabled
    /\ splitState.leftChatId # Null
    /\ \E g \in DOMAIN gens : gens[g].chatId = splitState.leftChatId
    /\ GetChatState(chatStates, splitState.leftChatId).isLoading
    /\ StoreIds(chats) \ {splitState.leftChatId} # {}

\* the text of the error ends with the response status
CarriesStatus(error, status) ==
    /\ Len(error.message) >= Len(status)
    /\ SubSeq(error.message, Len(error.message) - Len(status) + 1,
              Len(error.message)) = status

\* C25: a call of a completion client that ends by an abort, by a
\* non-success status or by a network failure gives an outcome that the
\* same client gives for no other of these events, and the outcome of a
\* non-success status carries that status.
C25_ClientOutcomesDistinguishable ==
    returned.op \in {"sendMessage", "sendMessageToBackend"}
    => /\ \A ev \in ClientEvents \ {returned.arg} :
             ClientError(returned.op, ev) # returned.value
       /\ returned.arg.event = "status"
             => CarriesStatus(returned.value, returned.arg.status)

\* the handle of generation g is the one registered for its conversation
Registered(g) ==
    /\ gens[g].chatId \in DOMAIN abortControllers
    /\ abortControllers[gens[g].chatId] = g

\* C26: a generation started on a conversation that has one in flight takes
\* over the conversation's place in the handle map and leaves the earlier
\* request as it is; from then on only a registered request is ever
\* aborted, so a stop aborts the second request and the first one, out of
\* reach, ends by its own answer.
C26_SecondHandleReplacesFirst ==
    [][\A g \in DOMAIN gens :
          /\ (nextGen' # nextGen /\ gens'[nextGen].chatId = gens[g].chatId)
                => /\ g \in DOMAIN gens'
                   /\ gens'[g].aborted = gens[g].aborted
                   /\ abortControllers'[gens[g].chatId] = nextGen
          /\ (g \in DOMAIN gens' /\ gens'[g].aborted # gens[g].aborted)
                => Registered(g)]_vars

\* two requests of one conversation are in flight; a stop has aborted the
\* second and released the handle, the first is untouched
C26_Witness ==
    \E g, h \in DOMAIN gens :
        /\ g < h
        /\ gens[g].chatId = gens[h].chatId
        /\ ~gens[g].aborted
        /\ gens[h].aborted
        /\ gens[g].chatId \notin DOMAIN abortControllers

\* C27: while a generation is in flight and has not been aborted, its
\* conversation is loading and its own handle is the one registered for
\* the conversation; in particular the cleanup of an earlier generation of
\* the conversation leaves both in place.
C27_InFlightIsLoadingAndRegistered ==
    \A g \in DOMAIN gens :
        ~gens[g].aborted
        => /\ GetChatState(chatStates, gens[g].chatId).isLoading
           /\ Registered(g)

\* the line with the two pieces of a prefix read as one
InOnePiece(line) ==
    IF Len(line) >= 2 /\ line[1] = DataHead /\ line[2] = DataTail
    THEN <<DataPrefix>> \o SubSeq(line, 3, Len(line))
    ELSE line

\* the newline-terminated lines among the tokens read so far
TerminatedLines ==
    LET l == SplitLines(SubSeq(decoder.stream, 1, decoder.pos))
    IN  [i \in 1..(Len(l) - 1) |-> InOnePiece(l[i])]

\* C28: the decoder's output does not depend on the chunks: however the
\* tokens read so far were cut, the values delivered, the accumulated text
\* and the pending partial line are those of reading them in one chunk,
\* and the text comes from the newline-terminated lines alone.
C28_ChunkingDoesNotMatter ==
    LET whole == DecodeChunk(NewDecoder(decoder.backend, decoder.stream),
                             SubSeq(decoder.stream, 1, decoder.pos))
        texts == FragmentsOf(decoder.backend, TerminatedLines)
    IN  /\ decoder.delivered = whole.delivered
        /\ decoder.fullContent = whole.fullContent
        /\ decoder.buffer = whole.buffer
        /\ decoder.delivered = RunningTotals(texts)
        /\ decoder.fullContent = Concat(texts)

\* a chunk ended inside the prefix of a line after a value was delivered,
\* and the body ends with a frame that has no line feed
C28_Witness ==
    /\ ~decoder.done
    /\ decoder.buffer = <<DataHead>>
    /\ Len(decoder.delivered) >= 1
    /\ decoder.stream[Len(decoder.stream)] # LF
    /\ decoder.stream[Len(decoder.stream)].t \in {"delta", "content"}

\* the history a regenerate or an edit stores before it issues its request:
\* the messages before the removed assistant message, resp. the first
\* idx - 1 messages and the edited user message
WrittenBeforeRequest(gen) ==
    IF gen.kind = "regenerate"
    THEN SubSeq(gen.before, 1, gen.idx - 1)
    ELSE Append(SubSeq(gen.before, 1, gen.idx - 1),
                [gen.before[gen.idx] EXCEPT !.content = gen.text])

\* C29: when the request of a regenerate or of an edit-and-resend fails or
\* is cancelled, the stored history is the one the operation wrote before
\* the request (so no assistant message was appended) and the session is
\* Idle (no other user operation on that conversation in between).
C29_RejectedRewriteKeepsWrittenHistory ==
    [][\A g \in GenIds :
          ((Fail(g) \/ Cancelled(g)) /\ gens[g].kind \in {"regenerate", "edit"}
              /\ gens[g].clean)
          => /\ MsgsAfter(gens[g].chatId) = WrittenBeforeRequest(gens[g])
             /\ IsIdle(chatStates', abortControllers', gens[g].chatId)]_vars

\* the one-message list sendUserMessage gives a conversation it creates
OnlyUserMessage(msgs, content) ==
    Len(msgs) = 1 /\ msgs[1].role = "user" /\ msgs[1].content = content

\* C30: sendUserMessage returns the identifier of the conversation that
\* received the user message.  Called with a stored identifier it adds no
\* conversation, appends the message there and will return that identifier;
\* called with null or with an identifier that is not stored it adds one
\* conversation whose only message is the user message and will return the
\* new identifier; the value is returned on success, failure and
\* cancellation alike.
C30_SendReturnsReceivingConversation ==
    [][/\ \A c \in AllIds \cup {Null} : \A t \in UserTexts :
             (SendUserMessage(c, t) \/ SendToAbsent(c, t))
             => LET target == gens'[nextGen].chatId
                IN  IF c # Null /\ HasChat(chats, c)
                    THEN /\ target = c
                         /\ [i \in DOMAIN chats' |-> chats'[i].id] =
                               [i \in DOMAIN chats |-> chats[i].id]
                         /\ Len(MsgsAfter(c)) = Len(Msgs(c)) + 1
                         /\ SubSeq(MsgsAfter(c), 1, Len(Msgs(c))) = Msgs(c)
                         /\ MsgsAfter(c)[Len(MsgsAfter(c))].role = "user"
                         /\ MsgsAfter(c)[Len(MsgsAfter(c))].content = t
                    ELSE /\ target \notin StoreIds(chats) \cup {c}
                         /\ StoreIds(chats') = StoreIds(chats) \cup {target}
                         /\ Len(chats') = Len(chats) + 1
                         /\ OnlyUserMessage(MsgsAfter(target), t)
                         /\ \A a \in StoreIds(chats) : MsgsAfter(a) = Msgs(a)
       /\ \A g \in GenIds :
             ((\E r \in Responses(g) : Complete(g, r)) \/ Fail(g) \/ Cancelled(g))
             => (gens[g].kind = "send"
                 => /\ returned'.op = "send"
                    /\ returned'.arg = gens[g].arg
                    /\ returned'.state = "fulfilled"
                    /\ returned'.value = gens[g].chatId)]_vars

\* a send that named a deleted conversation has failed and returned the
\* identifier of the conversation created for it, which holds one message
C30_Witness ==
    /\ returned.op = "send"
    /\ returned.arg \in deleted
    /\ returned.value \notin deleted \cup {Null}
    /\ HasChat(chats, returned.value)
    /\ Len(Msgs(returned.value)) = 1

\* the title the first user message gives a conversation: the trimmed text
\* when at most 50 characters long, else its first 50 characters and '...'
DerivedTitle(text) ==
    IF Len(Trim(text)) <= 50 THEN Trim(text)
    ELSE SubSeq(Trim(text), 1, 50) \o "..."

\* C31: a send gives the conversation it creates, and an empty conversation
\* still titled 'New chat', the title derived from the text; a conversation
\* whose title is not the default keeps its title.
C31_TitleFromFirstMessage ==
    [][\A c \in AllIds \cup {Null} : \A t \in TitleTexts :
          SendUserMessage(c, t)
          => LET target == gens'[nextGen].chatId
                 title == FindChat(chats', target).title
             IN  IF c = Null \/ (Msgs(c) = <<>> /\ FindChat(chats, c).title = DefaultTitle)
                 THEN title = DerivedTitle(t)
                 ELSE FindChat(chats, c).title # DefaultTitle
                         => title = FindChat(chats, c).title]_vars

\* a text with blanks around more than 50 characters gave an empty
\* conversation a cut title, and a later send of a short text left it alone
C31_Witness ==
    \E i \in DOMAIN chats :
        /\ Len(chats[i].title) = 53
        /\ Len(chats[i].messages) = 2
        /\ Len(chats[i].messages[1].content) > Len(chats[i].title) - 3
        /\ Len(chats[i].messages[2].content) < 50

\* C32: deleteMessage(c, m) takes the message with identifier m out of
\* conversation c and changes nothing else: the other messages of c stay
\* as they are and in order, the other conversations, the registry and the
\* handle map are unchanged; when m is not in c no message list changes.
C32_DeleteMessageRemovesOne ==
    [][\A c \in KnownIds : \A m \in EditTargets(c) :
          DeleteMessage(c, m)
          => /\ MsgsAfter(c) = IF m \in MessageIds(Msgs(c))
                               THEN RemoveAt(Msgs(c), FindIndex(Msgs(c), m))
                               ELSE Msgs(c)
             /\ [i \in DOMAIN chats' |-> chats'[i].id] =
                   [i \in DOMAIN chats |-> chats[i].id]
             /\ \A a \in StoreIds(chats) \ {c} : FindChat(chats', a) = FindChat(chats, a)
             /\ chatStates' = chatStates
             /\ abortControllers' = abortControllers]_vars

\* a message was deleted from a conversation that still holds a message
\* which followed it
C32_Witness ==
    \E p \in removed :
        /\ p[2] \notin MessageIds(Msgs(p[1]))
        /\ \E i \in DOMAIN Msgs(p[1]) : Msgs(p[1])[i].id > p[2]

\* text s holds text sub
Contains(s, sub) ==
    \E i \in 1..(Len(s) - Len(sub) + 1) : SubSeq(s, i, i + Len(sub) - 1) = sub

\* role and content of a stored message, as a request carries them
Sent(m) == [role |-> m.role, content |-> m.content]

\* C33: the request of a generation carries one system message and then
\* role and content of the messages stored for the conversation when the
\* request is issued: for a send the prior messages and the new user
\* message, for a regenerate the messages before the removed assistant
\* message, for an edit the first i messages with the edited one last.
\* The system message holds the memory section, with every item, exactly
\* when memory use is enabled and the memory list is not empty.
C33_RequestCarriesStoredHistory ==
    [][nextGen' = nextGen + 1
       => LET gen == gens'[nextGen]
              req == gen.request
              stored == MsgsAfter(gen.chatId)
          IN  /\ Len(req) = Len(stored) + 1
              /\ req[1].role = "system"
              /\ \A i \in DOMAIN stored : req[i + 1] = Sent(stored[i])
              /\ IF gen.kind = "send"
                 THEN /\ SubSeq(stored, 1, Len(stored) - 1) = gen.before
                      /\ Sent(stored[Len(stored)]) =
                            [role |-> "user", content |-> gen.text]
                 ELSE stored = WrittenBeforeRequest(gen)
              /\ Contains(req[1].content, "MEMORY (facts about the user):")
                    <=> (useMemory /\ memory # <<>>)
              /\ (useMemory /\ memory # <<>>)
                    => \A k \in DOMAIN memory :
                          Contains(req[1].content, "- " \o memory[k])]_vars

\* two memory items are saved and memory use is disabled; the first request
\* went out with the memory section, a later one without it
C33_Witness ==
    /\ Len(memory) = 2 /\ ~useMemory
    /\ DOMAIN gens = {1, 2}
    /\ Contains(gens[1].request[1].content, "- m\n- n")
    /\ gens[2].request[1].content = SystemPrompt
    /\ Len(gens[2].request) >= 2

\* the last element of a list of texts, the empty text for the empty list
LastOr(texts) == IF texts = <<>> THEN "" ELSE texts[Len(texts)]

\* C34: with streaming enabled the text sendMessage returns is the last
\* value handed to the per-delta callback (the empty text when none was),
\* and the assistant message committed on success holds the returned text;
\* with streaming disabled the callback is never invoked.
C34_ReturnedTextIsLastDelivered ==
    [][/\ \A g \in GenIds : \A r \in Responses(g) :
             Complete(g, r)
             => LET after == MsgsAfter(gens[g].chatId)
                IN  /\ after[Len(after)].role = "assistant"
                    /\ after[Len(after)].content = r
                    /\ streamingEnabled => r = LastOr(decoder.delivered)
       /\ ~streamingEnabled
             => /\ decoder'.delivered = <<>>
                /\ \A c \in DOMAIN chatStates' :
                      chatStates'[c].streamingContent = ""]_vars

\* a reply was committed whose text is the second value the callback was
\* handed
C34_Witness ==
    /\ streamingEnabled
    /\ returned.op \in {"send", "regenerate"}
    /\ Len(decoder.delivered) = 2
    /\ \E i \in DOMAIN chats :
          LET msgs == chats[i].messages
          IN  /\ msgs # <<>>
              /\ msgs[Len(msgs)].role = "assistant"
              /\ msgs[Len(msgs)].content = decoder.delivered[2]
              /\ msgs[Len(msgs)].content # decoder.delivered[1]

\* the lines read so far that are a well-formed frame with an error field
ErrorFramesRead == {i \in DOMAIN TerminatedLines : TerminatedLines[i] = ErrorLine}

\* C37: in the backend decoder a well-formed frame with an error field makes
\* the call fail, so it never ends as a success with the text accumulated so
\* far, and a frame that is not valid JSON is only skipped.
C37_ErrorFrameFailsTheCall ==
    decoder.backend
    => /\ ErrorFramesRead # {} => decoder.failed /\ ~decoder.done
       /\ ErrorFramesRead = {} => ~decoder.failed

\* C38: after the page has handled deleteChat(c), neither slot of the split
\* view names c, also when a send started from an empty slot ends after the
\* deletion and the panel adopts the identifier it returns (checked for the
\* deleted conversations that are absent from the store).
C38_NoSlotNamesDeletedConversation ==
    \A c \in deleted \ StoreIds(chats) :
        splitState.leftChatId # c /\ splitState.rightChatId # c

LocalIds(list, c) == MessageIds(ChatMessages(list, c))

\* C35: in the backend manager a conversation's local history loses a
\* message only by a delete-message or a regenerate; the periodic refresh
\* (loadChats) never removes one, also between the optimistic append of a
\* user message and the commit of the reply.
C35_RefreshKeepsLocalHistory ==
    [][\A c \in StoreIds(backendChats) :
          LocalIds(backendChats, c) \subseteq LocalIds(backendChats', c)
          \/ BackendRegenerate(c)
          \/ \E m \in LocalIds(backendChats, c) : BackendDeleteMessage(c, m)]_vars

\* C36: a regenerateLastResponse of the backend manager that returns without
\* issuing a generation has removed no message, neither from the backend
\* nor from the local history.
C36_RegenerateAllOrNothing ==
    [][\A c \in StoreIds(backendChats) :
          (BackendRegenerate(c) /\ backendCalls' = backendCalls)
          => /\ ChatMessages(remoteChats', c) = ChatMessages(remoteChats, c)
             /\ ChatMessages(backendChats', c) = ChatMessages(backendChats, c)]_vars
====
